---- MODULE Spec2Model ----
(***************************************************************************)
(* libcluster: cluster membership and worker-index allocation.             *)
(*                                                                         *)
(* The model follows src/cluster.c (handle, setters, accessors, join and   *)
(* leave dispatch), src/static.c (static back-end), src/etcd.c (directory  *)
(* back-end) and src/engines/sql.c (relational back-end).  A CLUSTER       *)
(* handle is a record with the fields of struct cluster_struct; the        *)
(* registry is a map from namespace to the membership records in it; the   *)
(* ping thread and the balancer thread of a handle are processes with a    *)
(* program counter each.                                                   *)
(*                                                                         *)
(* An API call made by the application thread is one action, taken under   *)
(* the handle's lock as the code takes it; a call that blocks on the two   *)
(* threads (leave, destroy) is split at the pthread_join.                  *)
(***************************************************************************)
EXTENDS Integers, Sequences, FiniteSets, TLC

\* ------------------------------------------------------------------ bounds
\* largest worker count passed to cluster_set_workers
MaxWorkers == 2
\* largest index passed to cluster_static_set_index
MaxIndex == 1
\* largest total passed to cluster_static_set_total
MaxTotal == 3
\* largest worker ordinal passed to cluster_index
MaxOrdinal == 1

\* ------------------------------------------------------------- the domain
Handles == {"h1", "h2"}

\* Instance identifiers are byte strings; <<1>> < <<1,2>> < <<2>> under strcmp.
Ids == {<<1>>, <<1, 2>>, <<2>>}

\* a NULL instance identifier
NullId == <<>>

CLUSTER_DEFAULT_ENV == "production"
Envs == {CLUSTER_DEFAULT_ENV, "staging"}

\* CLUSTERTYPE
CT_STATIC == "CT_STATIC"
CT_ETCD == "CT_ETCD"
CT_SQL == "CT_SQL"
Dynamic == {CT_ETCD, CT_SQL}

\* CLUSTERFLAGS (CF_VERBOSE only selects log output and is left out)
CF_JOINED == "CF_JOINED"
CF_LEAVING == "CF_LEAVING"
CF_PASSIVE == "CF_PASSIVE"

\* errno values the library sets; ENONE: the call set none
EPERM == "EPERM"
EINVAL == "EINVAL"
ENONE == "ENONE"

\* A namespace of the registry: the back-end and <key>/<env> (one cluster key).
Namespaces == Dynamic \X Envs

VARIABLES
    cl,        \* cl[h]: the CLUSTER struct of handle h
    reg,       \* reg[ns]: the live membership records of namespace ns, id -> worker count
    ping_pc,   \* ping_pc[h]: position of h's ping thread
    bal_pc,    \* bal_pc[h]: position of h's balancer thread
    wake,      \* wake[h]: the directory changed while h's balancer thread waits on it
    alive,     \* alive[h]: the handle exists (created, not destroyed)
    app,       \* app[h]: the call the application thread is blocked in (or, under
               \* SpecThreads, the position of each application thread)
    fresh,     \* fresh[h]: h's last balance pass read the registry as it is now
    lastOp     \* the call or step just completed, with its result

vars == <<cl, reg, ping_pc, bal_pc, wake, alive, app, fresh, lastOp>>

\* ------------------------------------------------------- registry helpers
EmptyDir == [k \in {} |-> 0]

Put(dir, id, val) ==
    [k \in (DOMAIN dir) \cup {id} |-> IF k = id THEN val ELSE dir[k]]

Del(dir, id) == [k \in (DOMAIN dir) \ {id} |-> dir[k]]

\* the namespace a handle's registry calls address
NsOf(c) == <<c.type, c.env>>

\* strcmp over byte strings: negative, zero or positive
RECURSIVE strcmp(_, _)
strcmp(a, b) ==
    IF a = <<>> /\ b = <<>> THEN 0
    ELSE IF a = <<>> THEN -1
    ELSE IF b = <<>> THEN 1
    ELSE IF Head(a) < Head(b) THEN -1
    ELSE IF Head(a) > Head(b) THEN 1
    ELSE strcmp(Tail(a), Tail(b))

\* comparison function handed to qsort
cluster_etcd_sort_(a, b) == strcmp(a, b)

\* the keys of a directory, sorted ascending
RECURSIVE cluster_etcd_json_keys_(_)
cluster_etcd_json_keys_(keyset) ==
    IF keyset = {} THEN <<>>
    ELSE LET first == CHOOSE k \in keyset :
                          \A j \in keyset : cluster_etcd_sort_(k, j) <= 0
         IN  <<first>> \o cluster_etcd_json_keys_(keyset \ {first})

\* the loop, were the base taken after the instance's own count is added
RECURSIVE BalanceLoopInclusive(_, _, _, _, _, _)
BalanceLoopInclusive(keys, dir, instid, mine, base, total) ==
    IF keys = <<>> THEN [base |-> base, total |-> total]
    ELSE LET k == Head(keys)
             val == dir[k]
             nbase == IF k = instid /\ mine THEN total + val ELSE base
         IN  BalanceLoopInclusive(Tail(keys), dir, instid, mine, nbase, total + val)

\* the loop of a balance pass over the sorted keys: base and total so far
RECURSIVE BalanceLoop(_, _, _, _, _, _)
BalanceLoop(keys, dir, instid, mine, base, total) ==
    IF keys = <<>> THEN [base |-> base, total |-> total]
    ELSE LET k == Head(keys)
             val == dir[k]
             nbase == IF k = instid /\ mine THEN total ELSE base
         IN  BalanceLoop(Tail(keys), dir, instid, mine, nbase, total + val)

\* the etcd pass, were the base to start from the stored index and not from -1
EtcdAssignStale(c, dir) ==
    BalanceLoop(cluster_etcd_json_keys_(DOMAIN dir), dir, c.instid, TRUE,
                c.inst_index, 0)

\* cluster_etcd_balance_: the instance's own key always claims the base
EtcdAssign(c, dir) ==
    BalanceLoop(cluster_etcd_json_keys_(DOMAIN dir), dir, c.instid, TRUE, -1, 0)

\* cluster_sql_balance_: rows come ORDER BY id ASC; a passive instance claims none
SqlAssign(c, dir) ==
    BalanceLoop(cluster_etcd_json_keys_(DOMAIN dir), dir, c.instid,
                CF_PASSIVE \notin c.flags, -1, 0)

Assign(c, dir) == IF c.type = CT_ETCD THEN EtcdAssign(c, dir) ELSE SqlAssign(c, dir)

\* The handle's lock as one thread holds it, "none", "read" or "write", after
\* cluster_rdlock_, cluster_wrlock_ or cluster_unlock_.
LockOp(held, op) ==
    CASE op = "unlock" -> "none"
      [] op = "init" -> "none"
      [] op = "wrlock" -> "write"
      [] op = "rdlock" -> IF held = "write" THEN "write" ELSE "read"

RECURSIVE HeldAfter(_, _)
HeldAfter(held, ops) ==
    IF ops = <<>> THEN held ELSE HeldAfter(LockOp(held, Head(ops)), Tail(ops))

\* the callback, were it invoked a second time
cluster_rebalanced_twice(c, held) ==
    IF ~c.balancer THEN <<>>
    ELSE LET state == [index |-> c.inst_index, workers |-> c.inst_threads,
                       total |-> c.total_threads, passive |-> FALSE,
                       held |-> held]
         IN  <<state, state>>

\* cluster_rebalanced_: the CLUSTERSTATE handed to the balancer callback, if one
\* is set; held is the lock the calling thread holds as it makes the call
cluster_rebalanced_(c, held) ==
    IF ~c.balancer THEN <<>>
    ELSE <<[index |-> c.inst_index, workers |-> c.inst_threads,
            total |-> c.total_threads, passive |-> FALSE, held |-> held]>>

\* the lock calls of a balance pass up to its callback: the caller's write lock,
\* released before cluster_rebalanced_
BalanceLocks == <<"wrlock", "unlock">>

\* the tail of a balance pass, were only the base compared with what is stored
BalanceStoreBaseOnly(c, a) ==
    IF a.base # c.inst_index
    THEN LET c2 == [c EXCEPT !.inst_index = a.base, !.total_threads = a.total]
         IN  [c |-> c2, cbs |-> cluster_rebalanced_(c2, HeldAfter("none", BalanceLocks))]
    ELSE [c |-> c, cbs |-> <<>>]

\* the tail of a balance pass, were it to store and call back every time
BalanceStoreAlways(c, a) ==
    LET c2 == [c EXCEPT !.inst_index = a.base, !.total_threads = a.total]
    IN  [c |-> c2, cbs |-> cluster_rebalanced_(c2, HeldAfter("none", BalanceLocks))]

\* The tail of a balance pass: store a changed assignment and call back.
\* Gives the struct after the pass and the callbacks made.
BalanceStore(c, a) ==
    IF a.total # c.total_threads \/ a.base # c.inst_index
    THEN LET c2 == [c EXCEPT !.inst_index = a.base, !.total_threads = a.total]
         IN  [c |-> c2, cbs |-> cluster_rebalanced_(c2, HeldAfter("none", BalanceLocks))]
    ELSE [c |-> c, cbs |-> <<>>]

cluster_balance_(c, dir) == BalanceStore(c, Assign(c, dir))

\* ------------------------------------------------------------- the handle
\* cluster_create: calloc, inst_threads = 1, a generated instance id, default env.
\* lock: the pthread_rwlock_t between two calls, "free", or "corrupt" once a
\* thread that did not hold it has unlocked it.
\* orphans is no field of the struct: it counts the pairs of threads created
\* for the handle whose ids a later pthread_create has overwritten.
Created(id) ==
    [type |-> CT_STATIC, flags |-> {}, instid |-> id, env |-> CLUSTER_DEFAULT_ENV,
     inst_index |-> 0, inst_threads |-> 1, total_threads |-> 0,
     balancer |-> FALSE, conn |-> FALSE,
     ping_thread |-> FALSE, balancer_thread |-> FALSE, forkmode |-> {},
     lock |-> "free", orphans |-> 0]

Joined(h) == CF_JOINED \in cl[h].flags

\* A request the registry carried out in a step, with the handle's lock as the
\* calling thread holds it when it makes the request: "put" (etcd_key_set_ttl,
\* with prevExist=true when mustexist; the SQL DELETE and INSERT), "delete",
\* "list" (etcd_dir_get; the SELECT of a balance pass), "wait" (etcd_dir_wait;
\* the SQL poll).
Req(call, mustexist, held) == [call |-> call, mustexist |-> mustexist, held |-> held]

Op(name, h, arg, ret, errno, cbs) ==
    [op |-> name, h |-> h, arg |-> arg, ret |-> ret, errno |-> errno,
     joined0 |-> Joined(h), cbs |-> cbs, io |-> <<>>]

\* the step op, in which the requests io were made
Io(op, io) == [op EXCEPT !.io = io]

\* a step that returns nothing to the application: of a thread, or into a blocking call
Step(name, h, cbs) ==
    [op |-> name, h |-> h, arg |-> 0, ret |-> 0, errno |-> ENONE,
     joined0 |-> Joined(h), cbs |-> cbs, io |-> <<>>]

\* the application thread of h may make a call
Callable(h) == alive[h] /\ app[h] = "idle"


\* what a registry write in namespace ns does to the watchers of that directory
WakeAfter(ns) ==
    [g \in Handles |-> wake[g] \/ (bal_pc[g] = "wait" /\ cl[g].type = CT_ETCD
                                   /\ NsOf(cl[g]) = ns)]

FreshAfter(ns, newdir) ==
    [g \in Handles |-> fresh[g] /\ ~(NsOf(cl[g]) = ns /\ newdir # reg[ns])]

\* ------------------------------------------------------------ the setters
\* the parameters a setter refuses to alter while joined
Busy(h, name, arg) ==
    /\ Joined(h)
    /\ lastOp' = Op(name, h, arg, -1, EPERM, <<>>)
    /\ UNCHANGED <<cl, reg, ping_pc, bal_pc, wake, alive, app, fresh>>

Done(h, name, arg, c) ==
    /\ cl' = [cl EXCEPT ![h] = c]
    /\ lastOp' = Op(name, h, arg, 0, ENONE, <<>>)
    /\ UNCHANGED <<reg, ping_pc, bal_pc, wake, alive, app, fresh>>

Refused(h, name, arg, errno) ==
    /\ lastOp' = Op(name, h, arg, -1, errno, <<>>)
    /\ UNCHANGED <<cl, reg, ping_pc, bal_pc, wake, alive, app, fresh>>

\* cluster_set_env, were CF_JOINED not tested
cluster_set_env_unguarded(h, env) ==
    /\ Callable(h)
    /\ Done(h, "set_env", 0,
            [cl[h] EXCEPT !.env = IF env = "NULL" THEN CLUSTER_DEFAULT_ENV ELSE env])

\* env = NULL stands for the default environment
cluster_set_env(h, env) ==
    /\ Callable(h)
    /\ \/ Busy(h, "set_env", 0)
       \/ /\ ~Joined(h)
          /\ Done(h, "set_env", 0,
                  [cl[h] EXCEPT !.env = IF env = "NULL" THEN CLUSTER_DEFAULT_ENV ELSE env])

cluster_set_instance(h, name) ==
    /\ Callable(h)
    /\ \/ Busy(h, "set_instance", 0)
       \/ /\ ~Joined(h)
          /\ name = NullId
          /\ Refused(h, "set_instance", 0, EINVAL)
       \/ /\ ~Joined(h)
          /\ name # NullId
          /\ Done(h, "set_instance", 0, [cl[h] EXCEPT !.instid = name])

\* the registry URIs tried: none, the two web schemes, a scheme libsql knows, another
URIs == {"NULL", "http:", "https:", "mysql:", "ftp:"}

sql_scheme_exists(uri) == uri = "mysql:"

cluster_set_registry(h, uri) ==
    /\ Callable(h)
    /\ \/ Busy(h, "set_registry", uri)
       \/ /\ ~Joined(h)
          /\ uri = "NULL"
          /\ Done(h, "set_registry", uri, [cl[h] EXCEPT !.type = CT_STATIC])
       \/ /\ ~Joined(h)
          /\ uri # "NULL"
          /\ sql_scheme_exists(uri)
          /\ Done(h, "set_registry", uri, [cl[h] EXCEPT !.type = CT_SQL])
       \/ /\ ~Joined(h)
          /\ uri = "http:"
          /\ Done(h, "set_registry", uri, [cl[h] EXCEPT !.type = CT_ETCD])
       \/ /\ ~Joined(h)
          /\ uri \notin {"NULL", "http:"}
          /\ ~sql_scheme_exists(uri)
          /\ Refused(h, "set_registry", uri, EINVAL)

cluster_set_workers(h, nworkers) ==
    /\ Callable(h)
    /\ Done(h, "set_workers", nworkers, [cl[h] EXCEPT !.inst_threads = nworkers])

cluster_set_balancer(h, callback) ==
    /\ Callable(h)
    /\ Done(h, "set_balancer", 0, [cl[h] EXCEPT !.balancer = callback])

cluster_static_set_index(h, instindex) ==
    /\ Callable(h)
    /\ \/ Busy(h, "static_set_index", 0)
       \/ /\ ~Joined(h)
          /\ instindex < 0
          /\ Refused(h, "static_set_index", instindex, EINVAL)
       \/ /\ ~Joined(h)
          /\ instindex >= 0
          /\ Done(h, "static_set_index", instindex, [cl[h] EXCEPT !.inst_index = instindex])

cluster_static_set_total(h, total) ==
    /\ Callable(h)
    /\ \/ Busy(h, "static_set_total", 0)
       \/ /\ ~Joined(h)
          /\ total < 1
          /\ Refused(h, "static_set_total", total, EINVAL)
       \/ /\ ~Joined(h)
          /\ total >= 1
          /\ Done(h, "static_set_total", total, [cl[h] EXCEPT !.total_threads = total])

\* ---------------------------------------------------------- the accessors
Answer(h, name, arg, ret, errno) ==
    /\ lastOp' = Op(name, h, arg, ret, errno, <<>>)
    /\ UNCHANGED <<cl, reg, ping_pc, bal_pc, wake, alive, app, fresh>>

\* cluster_index, were the worker ordinal not added
cluster_index_base(h, worker) ==
    /\ Callable(h)
    /\ IF Joined(h)
       THEN Answer(h, "index", worker, cl[h].inst_index, ENONE)
       ELSE Answer(h, "index", worker, -1, EPERM)

cluster_index(h, worker) ==
    /\ Callable(h)
    /\ IF Joined(h)
       THEN Answer(h, "index", worker, cl[h].inst_index + worker, ENONE)
       ELSE Answer(h, "index", worker, -1, EPERM)

cluster_total(h) ==
    /\ Callable(h)
    /\ IF Joined(h)
       THEN Answer(h, "total", 0, cl[h].total_threads, ENONE)
       ELSE Answer(h, "total", 0, 0, EPERM)

cluster_workers(h) ==
    /\ Callable(h)
    /\ IF Joined(h)
       THEN Answer(h, "workers", 0, cl[h].inst_threads, ENONE)
       ELSE Answer(h, "workers", 0, 0, EPERM)

\* ----------------------------------------------------- the static back-end
\* total_threads once the join has replaced an unset total by 1
StaticTotal(c) == IF c.total_threads = 0 THEN 1 ELSE c.total_threads

\* the two range checks of cluster_static_join_
StaticRejects(c) ==
    \/ c.inst_index >= StaticTotal(c)
    \/ c.inst_index + c.inst_threads >= StaticTotal(c)

\* the lock calls of cluster_static_join_ up to its callback
StaticJoinLocks == <<"wrlock", "unlock">>

cluster_static_join_(h, name, c0) ==
    LET c1 == [c0 EXCEPT !.total_threads = StaticTotal(c0)]
        c2 == [c1 EXCEPT !.flags = @ \cup {CF_JOINED}]
    IN  /\ UNCHANGED <<reg, ping_pc, bal_pc, wake, alive, app, fresh>>
        /\ IF StaticRejects(c1)
           THEN /\ cl' = [cl EXCEPT ![h] = c1]
                /\ lastOp' = Op(name, h, 0, -1, EINVAL, <<>>)
           ELSE /\ cl' = [cl EXCEPT ![h] = c2]
                /\ lastOp' = Op(name, h, 0, 0, ENONE,
                               cluster_rebalanced_(c2, HeldAfter("none", StaticJoinLocks)))

cluster_static_leave_(h) ==
    /\ cl' = [cl EXCEPT ![h].flags = @ \ {CF_JOINED, CF_LEAVING}]
    /\ lastOp' = Op("leave", h, 0, 0, ENONE, <<>>)
    /\ UNCHANGED <<reg, ping_pc, bal_pc, wake, alive, app, fresh>>


\* ---------------------------------------------------- the dynamic back-ends
\* the unwinding, were CF_LEAVING left set
LeaveUnwindStillLeaving(c) ==
    [c EXCEPT !.flags = @ \ {CF_JOINED},
              !.ping_thread = FALSE, !.balancer_thread = FALSE, !.conn = FALSE]

\* The unwinding of cluster_etcd_leave_ / cluster_sql_leave_: flags cleared,
\* thread ids zeroed, adapter handles closed.
LeaveUnwind(c) ==
    [c EXCEPT !.flags = @ \ {CF_JOINED, CF_LEAVING},
              !.ping_thread = FALSE, !.balancer_thread = FALSE, !.conn = FALSE]

\* cluster_etcd_ping_: the value written is the decimal inst_threads.
\* With ETCD_EXISTS (prevExist=true) the registry refuses a key that is absent.
cluster_etcd_ping_(c, dir, mustexist) ==
    IF mustexist /\ c.instid \notin DOMAIN dir THEN dir
    ELSE Put(dir, c.instid, c.inst_threads)

\* cluster_sql_ping_: nothing when passive, else DELETE and INSERT of the row
cluster_sql_ping_(c, dir) ==
    IF CF_PASSIVE \in c.flags THEN dir ELSE Put(dir, c.instid, c.inst_threads)

cluster_etcd_unping_(c, dir) == Del(dir, c.instid)

cluster_sql_unping_(c, dir) ==
    IF CF_PASSIVE \in c.flags THEN dir ELSE Del(dir, c.instid)

\* the requests of cluster_etcd_ping_ / cluster_sql_ping_ (none when the SQL
\* instance is passive), made with the lock held as given
PingIo(c, mustexist, held) ==
    IF c.type = CT_SQL /\ CF_PASSIVE \in c.flags THEN <<>>
    ELSE <<Req("put", c.type = CT_ETCD /\ mustexist, held)>>

\* the request of cluster_etcd_balance_ / cluster_sql_balance_
BalanceIo(held) == <<Req("list", FALSE, held)>>

\* the lock calls of cluster_etcd_join_ / cluster_sql_join_ up to the initial
\* ping and the initial balance
JoinLocks == <<"wrlock">>

\* where the registry may fail a join
EtcdFails == {"none", "connect", "opendir", "ping", "balance"}
SqlFails == {"none", "connect", "migrate", "ping", "balance"}

\* a join that failed, were the leave that unwinds it left out
JoinFailedNoUnwind(h, name, c0, dir, wrote) ==
    /\ cl' = [cl EXCEPT ![h] = [c0 EXCEPT !.inst_index = -1, !.conn = TRUE]]
    /\ reg' = [reg EXCEPT ![NsOf(c0)] = dir]
    /\ wake' = IF wrote THEN WakeAfter(NsOf(c0)) ELSE wake
    /\ fresh' = FreshAfter(NsOf(c0), dir)
    /\ lastOp' = Op(name, h, 0, -1, ENONE, <<>>)
    /\ UNCHANGED <<ping_pc, bal_pc, alive, app>>

\* A join that failed: inst_index was set to -1, then the leave unwinds.
JoinFailed(h, name, c0, dir, wrote) ==
    /\ cl' = [cl EXCEPT ![h] = LeaveUnwind([c0 EXCEPT !.inst_index = -1])]
    /\ reg' = [reg EXCEPT ![NsOf(c0)] = dir]
    /\ wake' = IF wrote THEN WakeAfter(NsOf(c0)) ELSE wake
    /\ fresh' = FreshAfter(NsOf(c0), dir)
    /\ lastOp' = Io(Op(name, h, 0, -1, ENONE, <<>>),
                    IF wrote THEN PingIo(c0, FALSE, HeldAfter("none", JoinLocks))
                    ELSE <<>>)
    /\ UNCHANGED <<ping_pc, bal_pc, alive, app>>

\* A join that got through: the initial ping and balance are done, the threads
\* are created (pinger tells whether the ping thread is), CF_JOINED is set.
JoinDone(h, name, c0, dir, pinger) ==
    LET c1 == [c0 EXCEPT !.inst_index = -1, !.conn = TRUE]
        b == cluster_balance_(c1, dir)
        c2 == [b.c EXCEPT !.ping_thread = pinger, !.balancer_thread = TRUE,
                          !.flags = @ \cup {CF_JOINED}]
    IN  /\ cl' = [cl EXCEPT ![h] = c2]
        /\ reg' = [reg EXCEPT ![NsOf(c0)] = dir]
        /\ wake' = [WakeAfter(NsOf(c0)) EXCEPT ![h] = FALSE]
        /\ fresh' = [FreshAfter(NsOf(c0), dir) EXCEPT ![h] = TRUE]
        /\ ping_pc' = [ping_pc EXCEPT ![h] = IF pinger THEN "loop" ELSE "none"]
        /\ bal_pc' = [bal_pc EXCEPT ![h] = "check"]
        /\ lastOp' = Io(Op(name, h, 0, 0, ENONE, b.cbs),
                        PingIo(c0, FALSE, HeldAfter("none", JoinLocks))
                            \o BalanceIo(HeldAfter("none", JoinLocks)))
        /\ UNCHANGED <<alive, app>>

\* c0: the struct as cluster_join (or cluster_join_passive) hands it over
cluster_etcd_join_(h, name, c0, fail) ==
    LET dir == reg[NsOf(c0)]
        pinged == cluster_etcd_ping_(c0, dir, FALSE)
    IN  \/ /\ fail \in {"connect", "opendir", "ping"}
           /\ JoinFailed(h, name, c0, dir, FALSE)
        \/ /\ fail = "balance"
           /\ JoinFailed(h, name, c0, pinged, TRUE)
        \/ /\ fail = "none"
           /\ JoinDone(h, name, c0, pinged, TRUE)

cluster_sql_join_(h, name, c0, fail) ==
    LET dir == reg[NsOf(c0)]
        pinged == cluster_sql_ping_(c0, dir)
    IN  \/ /\ fail \in {"connect", "migrate", "ping"}
           /\ JoinFailed(h, name, c0, dir, FALSE)
        \/ /\ fail = "balance"
           /\ JoinFailed(h, name, c0, pinged, TRUE)
        \/ /\ fail = "none"
           /\ JoinDone(h, name, c0, pinged, CF_PASSIVE \notin c0.flags)

\* ------------------------------------------------------- join and leave
\* the dispatch of cluster_join on the handle's type
JoinAs(h, name, c0, fail) ==
    IF Joined(h)
    THEN /\ lastOp' = Op(name, h, 0, 0, ENONE, <<>>)
         /\ UNCHANGED <<cl, reg, ping_pc, bal_pc, wake, alive, app, fresh>>
    ELSE \/ /\ c0.type = CT_STATIC
            /\ cluster_static_join_(h, name, c0)
         \/ /\ c0.type = CT_ETCD
            /\ cluster_etcd_join_(h, name, c0, IF fail \in EtcdFails THEN fail ELSE "none")
         \/ /\ c0.type = CT_SQL
            /\ cluster_sql_join_(h, name, c0, IF fail \in SqlFails THEN fail ELSE "none")

cluster_join(h, fail) ==
    /\ Callable(h)
    /\ JoinAs(h, "join", cl[h], fail)

\* cluster_join_passive: CF_PASSIVE is set, then the join proceeds as cluster_join.
\* (Neither cluster_join nor a leave clears the flag.)
cluster_join_passive(h, fail) ==
    /\ Callable(h)
    /\ JoinAs(h, "join_passive", [cl[h] EXCEPT !.flags = @ \cup {CF_PASSIVE}], fail)

\* the dynamic leave up to its pthread_join: CF_LEAVING is set
LeaveBegin(h, call) ==
    /\ cl' = [cl EXCEPT ![h].flags = @ \cup {CF_LEAVING}]
    /\ app' = [app EXCEPT ![h] = call]
    /\ lastOp' = Step("leave_begin", h, <<>>)
    /\ UNCHANGED <<reg, ping_pc, bal_pc, wake, alive, fresh>>

cluster_leave(h) ==
    /\ Callable(h)
    /\ \/ /\ ~Joined(h)
          /\ lastOp' = Op("leave", h, 0, 0, ENONE, <<>>)
          /\ UNCHANGED <<cl, reg, ping_pc, bal_pc, wake, alive, app, fresh>>
       \/ /\ Joined(h)
          /\ cl[h].type = CT_STATIC
          /\ cluster_static_leave_(h)
       \/ /\ Joined(h)
          /\ cl[h].type \in Dynamic
          /\ LeaveBegin(h, "leave")

\* the handle once freed
Freed == Created(NullId)

\* cluster_destroy: cluster_leave, then the handle is freed
cluster_destroy(h) ==
    /\ Callable(h)
    /\ \/ /\ ~(Joined(h) /\ cl[h].type \in Dynamic)
          /\ cl' = [cl EXCEPT ![h] = Freed]
          /\ alive' = [alive EXCEPT ![h] = FALSE]
          /\ fresh' = [fresh EXCEPT ![h] = FALSE]
          /\ lastOp' = Op("destroy", h, 0, 0, ENONE, <<>>)
          /\ UNCHANGED <<reg, ping_pc, bal_pc, wake, app>>
       \/ /\ Joined(h)
          /\ cl[h].type \in Dynamic
          /\ LeaveBegin(h, "destroy")

\* both threads joined: the leave unwinds and returns; destroy then frees
cluster_leave_return(h) ==
    /\ app[h] \in {"leave", "destroy"}
    /\ ping_pc[h] \in {"none", "done"}
    /\ bal_pc[h] \in {"none", "done"}
    /\ ping_pc' = [ping_pc EXCEPT ![h] = "none"]
    /\ bal_pc' = [bal_pc EXCEPT ![h] = "none"]
    /\ wake' = [wake EXCEPT ![h] = FALSE]
    /\ fresh' = [fresh EXCEPT ![h] = FALSE]
    /\ app' = [app EXCEPT ![h] = "idle"]
    /\ lastOp' = Op(app[h], h, 0, 0, ENONE, <<>>)
    /\ UNCHANGED reg
    /\ IF app[h] = "leave"
       THEN /\ cl' = [cl EXCEPT ![h] = LeaveUnwind(cl[h])]
            /\ UNCHANGED alive
       ELSE /\ cl' = [cl EXCEPT ![h] = Freed]
            /\ alive' = [alive EXCEPT ![h] = FALSE]

\* cluster_create: a handle with a generated instance identifier
cluster_create(h, id) ==
    /\ ~alive[h]
    /\ id \notin {cl[g].instid : g \in {g \in Handles : alive[g]}}
    /\ cl' = [cl EXCEPT ![h] = Created(id)]
    /\ alive' = [alive EXCEPT ![h] = TRUE]
    /\ lastOp' = [op |-> "create", h |-> h, arg |-> 0, ret |-> 0, errno |-> ENONE,
                  joined0 |-> FALSE, cbs |-> <<>>, io |-> <<>>]
    /\ UNCHANGED <<reg, ping_pc, bal_pc, wake, app, fresh>>


\* ------------------------------------------------------------ the threads
\* what the ping thread leaves in the directory when h's type is etcd or SQL
Refreshed(c, dir) ==
    IF c.type = CT_ETCD THEN cluster_etcd_ping_(c, dir, TRUE) ELSE cluster_sql_ping_(c, dir)

\* the directory, were the ping thread to end without removing the record
UnpingNothing(c, dir) == dir

Unpinged(c, dir) ==
    IF c.type = CT_ETCD THEN cluster_etcd_unping_(c, dir) ELSE cluster_sql_unping_(c, dir)

\* One pass of the ping thread's loop that does something: on CF_LEAVING the
\* loop ends, the record is removed and the thread returns; else, the refresh
\* time reached, the record is refreshed.  (The one-second ticks and a refresh
\* the registry fails change nothing.)
\* the lock calls of the ping thread up to a refresh, and up to the delete
\* that follows its loop
PingLocks == <<"rdlock", "unlock", "rdlock">>
UnpingLocks == <<"rdlock", "unlock", "rdlock">>

PingWrite(h, dir, pc) ==
    /\ reg' = [reg EXCEPT ![NsOf(cl[h])] = dir]
    /\ wake' = IF cl[h].type = CT_ETCD THEN WakeAfter(NsOf(cl[h])) ELSE wake
    /\ fresh' = FreshAfter(NsOf(cl[h]), dir)
    /\ ping_pc' = [ping_pc EXCEPT ![h] = pc]
    /\ lastOp' = Io(Step("thread", h, <<>>),
                    IF pc = "loop" THEN PingIo(cl[h], TRUE, HeldAfter("none", PingLocks))
                    ELSE IF dir = reg[NsOf(cl[h])] THEN <<>>
                    ELSE <<Req("delete", FALSE, HeldAfter("none", UnpingLocks))>>)
    /\ UNCHANGED <<cl, bal_pc, alive, app>>

cluster_ping_thread_(h) ==
    /\ ping_pc[h] = "loop"
    /\ LET dir == reg[NsOf(cl[h])]
       IN  \/ /\ CF_LEAVING \in cl[h].flags
              /\ IF cl[h].type = CT_ETCD /\ cl[h].instid \notin DOMAIN dir
                 THEN /\ ping_pc' = [ping_pc EXCEPT ![h] = "done"]
                      /\ lastOp' = Step("thread", h, <<>>)
                      /\ UNCHANGED <<cl, reg, bal_pc, wake, alive, app, fresh>>
                 ELSE PingWrite(h, Unpinged(cl[h], dir), "done")
           \/ /\ CF_LEAVING \notin cl[h].flags
              /\ cl[h].type = CT_ETCD => cl[h].instid \in DOMAIN dir
              /\ PingWrite(h, Refreshed(cl[h], dir), "loop")

\* The balancer thread.  "check": the flags are read under the read lock; on
\* CF_LEAVING the thread returns, else it unlocks.  "unlocked": it starts to wait
\* for a change (etcd_dir_wait, which sees the changes made from then on, or
\* the SQL poll).
\* "wait": the wait is over.  For etcd it ends with a change of the directory,
\* or with an error; for SQL the poll finds rows updated or the balance is due,
\* or neither.  A balance pass follows unless the wait found nothing.
\* the lock calls of the balancer thread up to its wait, and up to the list of
\* the balance pass that follows the wait
WaitLocks == <<"rdlock", "unlock", "rdlock", "unlock">>
PassLocks == WaitLocks \o <<"wrlock">>

cluster_balancer_thread_(h) ==
    \/ /\ bal_pc[h] = "check"
       /\ CF_LEAVING \in cl[h].flags
       /\ bal_pc' = [bal_pc EXCEPT ![h] = "done"]
       /\ lastOp' = Step("thread", h, <<>>)
       /\ UNCHANGED <<cl, reg, ping_pc, wake, alive, app, fresh>>
    \/ /\ bal_pc[h] = "check"
       /\ CF_LEAVING \notin cl[h].flags
       /\ bal_pc' = [bal_pc EXCEPT ![h] = "unlocked"]
       /\ lastOp' = Step("thread", h, <<>>)
       /\ UNCHANGED <<cl, reg, ping_pc, wake, alive, app, fresh>>
    \/ /\ bal_pc[h] = "unlocked"
       /\ bal_pc' = [bal_pc EXCEPT ![h] = "wait"]
       /\ wake' = [wake EXCEPT ![h] = FALSE]
       /\ lastOp' = Io(Step("thread", h, <<>>),
                       <<Req("wait", FALSE, HeldAfter("none", WaitLocks))>>)
       /\ UNCHANGED <<cl, reg, ping_pc, alive, app, fresh>>
    \/ /\ bal_pc[h] = "wait"
       /\ bal_pc' = [bal_pc EXCEPT ![h] = "check"]
       /\ wake' = [wake EXCEPT ![h] = FALSE]
       /\ lastOp' = Step("thread", h, <<>>)
       /\ UNCHANGED <<cl, reg, ping_pc, alive, app, fresh>>
    \/ /\ bal_pc[h] = "wait"
       /\ cl[h].type = CT_ETCD => wake[h]
       /\ LET b == cluster_balance_(cl[h], reg[NsOf(cl[h])])
          IN  /\ cl' = [cl EXCEPT ![h] = b.c]
              /\ lastOp' = Io(Step("balance", h, b.cbs),
                              BalanceIo(HeldAfter("none", PassLocks)))
       /\ bal_pc' = [bal_pc EXCEPT ![h] = "check"]
       /\ wake' = [wake EXCEPT ![h] = FALSE]
       /\ fresh' = [fresh EXCEPT ![h] = TRUE]
       /\ UNCHANGED <<reg, ping_pc, alive, app>>

\* ---------------------------------------------------------- the fork hooks
\* CLUSTERFORK: three bits of their own.  forkmode holds the value the
\* application gave cluster_set_fork, one of the three names, the first two
\* or'ed, or nothing (the calloc of cluster_create); the hooks test the first
\* two bits.
CLUSTER_FORK_CHILD == "CLUSTER_FORK_CHILD"
CLUSTER_FORK_PARENT == "CLUSTER_FORK_PARENT"
CLUSTER_FORK_BOTH == "CLUSTER_FORK_BOTH"
ForkModes == SUBSET {CLUSTER_FORK_CHILD, CLUSTER_FORK_PARENT} \cup {{CLUSTER_FORK_BOTH}}

\* cluster_etcd_prepare_ / cluster_sql_prepare_ up to the pthread_join: the
\* flags are saved, CF_LEAVING is set, the lock is released
cluster_etcd_prepare_(h) ==
    /\ Callable(h)
    /\ cl[h].type \in Dynamic
    /\ cl' = [cl EXCEPT ![h].flags = @ \cup {CF_LEAVING}]
    /\ app' = [app EXCEPT ![h] = "prepare"]
    /\ lastOp' = Step("prepare_begin", h, <<>>)
    /\ UNCHANGED <<reg, ping_pc, bal_pc, wake, alive, fresh>>

\* the lock calls of the prepare hook up to its call of cluster_rebalanced_
PrepareLocks == <<"wrlock", "unlock", "wrlock">>

\* what cluster_rdlock_ may do for a thread that holds the lock for writing:
\* fail (EDEADLK, the return value is not looked at), or block for ever
RdlockOutcomes == {"EDEADLK", "deadlock"}

\* The prepare hook once both threads are joined: the write lock is taken
\* again, the thread ids, inst_index and total_threads are reset and
\* cluster_rebalanced_ is called with the lock held.  Its read lock either
\* blocks the thread for good, or fails, and then its unlock releases the
\* hook's write lock, the callback runs, and the hook restores the flags saved
\* (the flags at entry: CF_LEAVING was not among them) and returns.
cluster_etcd_prepare_return(h, outcome) ==
    /\ app[h] = "prepare"
    /\ ping_pc[h] \in {"none", "done"}
    /\ bal_pc[h] \in {"none", "done"}
    /\ LET c1 == [cl[h] EXCEPT !.ping_thread = FALSE, !.balancer_thread = FALSE,
                               !.inst_index = -1, !.total_threads = 0]
           held == HeldAfter("none", PrepareLocks)
       IN  \/ /\ outcome = "deadlock"
              /\ held = "write"
              /\ cl' = [cl EXCEPT ![h] = c1]
              /\ app' = [app EXCEPT ![h] = "deadlock"]
              /\ lastOp' = Step("prepare", h, <<>>)
           \/ /\ outcome = "EDEADLK" \/ held # "write"
              /\ cl' = [cl EXCEPT ![h] = [c1 EXCEPT !.flags = @ \ {CF_LEAVING}]]
              /\ app' = [app EXCEPT ![h] = "forking"]
              /\ lastOp' = Step("prepare", h, cluster_rebalanced_(c1, held))
    /\ ping_pc' = [ping_pc EXCEPT ![h] = "none"]
    /\ bal_pc' = [bal_pc EXCEPT ![h] = "none"]
    /\ wake' = [wake EXCEPT ![h] = FALSE]
    /\ fresh' = [fresh EXCEPT ![h] = FALSE]
    /\ UNCHANGED <<reg, alive>>

\* fork(): the child process gets a copy k of the parent's handle h and none of
\* its threads; the parent hook and the child hook are yet to run
fork(h, k) ==
    /\ app[h] = "forking"
    /\ ~alive[k]
    /\ cl' = [cl EXCEPT ![k] = cl[h]]
    /\ alive' = [alive EXCEPT ![k] = TRUE]
    /\ app' = [app EXCEPT ![h] = "parent", ![k] = "child"]
    /\ lastOp' = Step("fork", h, <<>>)
    /\ UNCHANGED <<reg, ping_pc, bal_pc, wake, fresh>>

\* cluster_etcd_rejoin_ / cluster_sql_rejoin_ on the struct c: ping (the record
\* need not exist) and balance, the requests made with the lock held as given;
\* then, if the thread gets that far, the threads are created
cluster_etcd_rejoin_(h, c, held, threads) ==
    LET dir == reg[NsOf(c)]
        pinged == IF c.type = CT_ETCD THEN cluster_etcd_ping_(c, dir, FALSE)
                  ELSE cluster_sql_ping_(c, dir)
        pinger == c.type = CT_ETCD \/ CF_PASSIVE \notin c.flags
        b == cluster_balance_(c, pinged)
    IN  /\ cl' = [cl EXCEPT ![h] = IF threads
                                    THEN [b.c EXCEPT !.ping_thread = pinger,
                                                     !.balancer_thread = TRUE]
                                    ELSE b.c]
        /\ reg' = [reg EXCEPT ![NsOf(c)] = pinged]
        /\ wake' = [WakeAfter(NsOf(c)) EXCEPT ![h] = FALSE]
        /\ fresh' = [FreshAfter(NsOf(c), pinged) EXCEPT ![h] = threads]
        /\ ping_pc' = [ping_pc EXCEPT ![h] = IF threads /\ pinger THEN "loop" ELSE "none"]
        /\ bal_pc' = [bal_pc EXCEPT ![h] = IF threads THEN "check" ELSE "none"]
        /\ lastOp' = Io(Step("rejoin", h, b.cbs),
                        PingIo(c, FALSE, held) \o BalanceIo(held))

\* the lock calls of the parent's thread up to the parent hook: those of the
\* prepare hook, then the two of its cluster_rebalanced_
ParentLocks == PrepareLocks \o <<"rdlock", "unlock">>

\* what cluster_unlock_ may do for a thread that does not hold the lock: fail
\* (EPERM, not looked at), or count one reader less than none, after which no
\* thread gets the write lock any more
UnlockOutcomes == {"EPERM", "corrupt"}

\* cluster_etcd_parent_ / cluster_sql_parent_: after fork() in the parent, the
\* membership is resumed if the fork mode has the parent's bit; then the lock
\* is released.  The hook expects the lock held since the prepare hook; the
\* thread does not hold it, so the first unlock it makes is one of a lock not
\* held: that of a balance pass that stores a change, after which the pass
\* takes the write lock, or else the hook's own.
cluster_etcd_parent_(h, outcome) ==
    /\ app[h] = "parent"
    /\ UNCHANGED alive
    /\ LET held == HeldAfter("none", ParentLocks)
           c == cl[h]
           bad == [c EXCEPT !.lock = IF held = "none" /\ outcome = "corrupt"
                                     THEN "corrupt" ELSE @]
           pinged == IF c.type = CT_ETCD THEN cluster_etcd_ping_(c, reg[NsOf(c)], FALSE)
                     ELSE cluster_sql_ping_(c, reg[NsOf(c)])
           changed == cluster_balance_(c, pinged).c # c
       IN  IF CLUSTER_FORK_PARENT \in c.forkmode /\ Joined(h)
           THEN IF changed /\ bad.lock = "corrupt"
                THEN /\ cluster_etcd_rejoin_(h, bad, held, FALSE)
                     /\ app' = [app EXCEPT ![h] = "blocked"]
                ELSE /\ cluster_etcd_rejoin_(h, IF changed THEN c ELSE bad, held, TRUE)
                     /\ app' = [app EXCEPT ![h] = "idle"]
           ELSE /\ cl' = [cl EXCEPT ![h] = bad]
                /\ app' = [app EXCEPT ![h] = "idle"]
                /\ lastOp' = Step("parent", h, <<>>)
                /\ UNCHANGED <<reg, ping_pc, bal_pc, wake, fresh>>

\* cluster_reset_instance_locked_: a newly generated instance identifier
cluster_reset_instance_locked_(c, id) == [c EXCEPT !.instid = id]

\* the lock calls of the child hook up to its rejoin
ChildLocks == <<"init", "wrlock">>

\* cluster_etcd_child_ / cluster_sql_child_: after fork() in the child the lock
\* is initialised anew; if the fork mode has the child's bit, the instance
\* identifier is reset when it has the parent's bit too, and the membership is
\* resumed
cluster_etcd_child_(k, id) ==
    /\ app[k] = "child"
    /\ app' = [app EXCEPT ![k] = "idle"]
    /\ UNCHANGED alive
    /\ LET c0 == [cl[k] EXCEPT !.lock = "free"]
           reset == {CLUSTER_FORK_CHILD, CLUSTER_FORK_PARENT} \subseteq c0.forkmode
           c1 == IF reset THEN cluster_reset_instance_locked_(c0, id) ELSE c0
       IN  /\ IF reset
              THEN id \notin {cl[g].instid : g \in {g \in Handles : alive[g]}}
              ELSE id = c0.instid
           /\ IF CLUSTER_FORK_CHILD \in c0.forkmode /\ Joined(k)
              THEN cluster_etcd_rejoin_(k, c1, HeldAfter("none", ChildLocks), TRUE)
              ELSE /\ cl' = [cl EXCEPT ![k] = c1]
                   /\ lastOp' = Step("child", k, <<>>)
                   /\ UNCHANGED <<reg, ping_pc, bal_pc, wake, fresh>>

\* a call that takes the write lock of a handle whose lock is corrupt blocks
cluster_wrlock_(h) ==
    /\ Callable(h)
    /\ cl[h].lock = "corrupt"
    /\ app' = [app EXCEPT ![h] = "blocked"]
    /\ lastOp' = Step("wrlock", h, <<>>)
    /\ UNCHANGED <<cl, reg, ping_pc, bal_pc, wake, alive, fresh>>

\* --------------------------------------------------------- the registry
EnvStep(name) ==
    [op |-> name, h |-> "none", arg |-> 0, ret |-> 0, errno |-> ENONE,
     joined0 |-> FALSE, cbs |-> <<>>, io |-> <<>>]

RegistryWrite(ns, dir, name) ==
    /\ reg' = [reg EXCEPT ![ns] = dir]
    /\ wake' = WakeAfter(ns)
    /\ fresh' = FreshAfter(ns, dir)
    /\ lastOp' = EnvStep(name)
    /\ UNCHANGED <<cl, ping_pc, bal_pc, alive, app>>

\* the registry drops a record whose time to live has run out
Expire(ns, id) ==
    /\ id \in DOMAIN reg[ns]
    /\ RegistryWrite(ns, Del(reg[ns], id), "expire")

\* an instance of another process pings the namespace
OtherPing(ns, id, val) ==
    /\ id \notin {cl[g].instid : g \in {g \in Handles : alive[g]}}
    /\ RegistryWrite(ns, Put(reg[ns], id, val), "other")

\* ------------------------------------------------------ the specification
NoOp ==
    [op |-> "create", h |-> "h1", arg |-> 0, ret |-> 0, errno |-> ENONE,
     joined0 |-> FALSE, cbs |-> <<>>, io |-> <<>>]

\* the failures the registry shows a join of the one-handle application: none,
\* or one before anything was written
ApiFails == {"none", "connect", "ping"}

\* the instance identifiers the one-handle application uses
ApiIds == {<<1>>, <<2>>}

\* One application with one handle, just created.
Init ==
    /\ cl = [h \in Handles |-> IF h = "h1" THEN Created(<<1>>) ELSE Freed]
    /\ reg = [ns \in Namespaces |-> EmptyDir]
    /\ ping_pc = [h \in Handles |-> "none"]
    /\ bal_pc = [h \in Handles |-> "none"]
    /\ wake = [h \in Handles |-> FALSE]
    /\ alive = [h \in Handles |-> h = "h1"]
    /\ app = [h \in Handles |-> "idle"]
    /\ fresh = [h \in Handles |-> FALSE]
    /\ lastOp = NoOp

Api(h) ==
    \/ cluster_create(h, <<1>>)
    \/ cluster_destroy(h)
    \/ \E fail \in ApiFails : cluster_join(h, fail)
    \/ \E fail \in ApiFails : cluster_join_passive(h, fail)
    \/ cluster_leave(h)
    \/ cluster_leave_return(h)
    \/ \E env \in Envs \cup {"NULL"} : cluster_set_env(h, env)
    \/ \E name \in ApiIds \cup {NullId} : cluster_set_instance(h, name)
    \/ \E uri \in URIs : cluster_set_registry(h, uri)
    \/ \E n \in 1..MaxWorkers : cluster_set_workers(h, n)
    \/ cluster_set_balancer(h, TRUE)
    \/ \E i \in -1..MaxIndex : cluster_static_set_index(h, i)
    \/ \E t \in 0..MaxTotal : cluster_static_set_total(h, t)
    \/ \E w \in 0..MaxOrdinal : cluster_index(h, w)
    \/ cluster_total(h)
    \/ cluster_workers(h)

Next ==
    \/ Api("h1")
    \/ cluster_ping_thread_("h1")
    \/ cluster_balancer_thread_("h1")
    \/ \E ns \in Namespaces, id \in Ids : Expire(ns, id)

Spec == Init /\ [][Next]_vars

\* Several instances of one cluster: two handles, each in a process of its own,
\* created, given distinct instance identifiers, a worker count, the same
\* registry and a balancer callback; instances of further processes ping under
\* the identifier left over, which sorts between the two, and their record
\* expires when they stop.  The two handles ping in time, so that their records
\* go only when they leave; the second handle leaves and joins again.
Foreign == <<1, 2>>

Member(id, t, n) ==
    [Created(id) EXCEPT !.type = t, !.balancer = TRUE, !.inst_threads = n]

InitCluster ==
    /\ \E t \in Dynamic, n2 \in 1..MaxWorkers :
          cl = [h \in Handles |-> IF h = "h1" THEN Member(<<1>>, t, MaxWorkers)
                                                ELSE Member(<<2>>, t, n2)]
    /\ reg = [ns \in Namespaces |-> EmptyDir]
    /\ ping_pc = [h \in Handles |-> "none"]
    /\ bal_pc = [h \in Handles |-> "none"]
    /\ wake = [h \in Handles |-> FALSE]
    /\ alive = [h \in Handles |-> TRUE]
    /\ app = [h \in Handles |-> "idle"]
    /\ fresh = [h \in Handles |-> FALSE]
    /\ lastOp = NoOp

NextCluster ==
    \/ \E h \in Handles : cluster_join(h, "none")
    \/ cluster_leave("h2")
    \/ cluster_leave_return("h2")
    \/ \E h \in Handles : cluster_ping_thread_(h)
    \/ \E h \in Handles : cluster_balancer_thread_(h)
    \/ Expire(NsOf(cl["h1"]), Foreign)
    \/ \E n \in 1..MaxWorkers : OtherPing(NsOf(cl["h1"]), Foreign, n)

SpecCluster == InitCluster /\ [][NextCluster]_vars

\* One instance whose registry fails it: a handle configured for a dynamic
\* registry joins, actively or passively, and the join may fail at any of its
\* steps; it leaves and joins again, and a record it left behind expires.
JoinFails == EtcdFails \cup SqlFails

InitJoin ==
    /\ \E t \in Dynamic, b \in BOOLEAN, n \in 1..MaxWorkers :
          cl = [h \in Handles |->
                   IF h = "h1" THEN [Member(<<1>>, t, n) EXCEPT !.balancer = b]
                   ELSE Freed]
    /\ reg = [ns \in Namespaces |-> EmptyDir]
    /\ ping_pc = [h \in Handles |-> "none"]
    /\ bal_pc = [h \in Handles |-> "none"]
    /\ wake = [h \in Handles |-> FALSE]
    /\ alive = [h \in Handles |-> h = "h1"]
    /\ app = [h \in Handles |-> "idle"]
    /\ fresh = [h \in Handles |-> FALSE]
    /\ lastOp = NoOp

NextJoin ==
    \/ \E fail \in JoinFails : cluster_join("h1", fail)
    \/ \E fail \in JoinFails : cluster_join_passive("h1", fail)
    \/ cluster_leave("h1")
    \/ cluster_leave_return("h1")
    \/ cluster_ping_thread_("h1")
    \/ cluster_balancer_thread_("h1")
    \/ Expire(NsOf(cl["h1"]), <<1>>)

SpecJoin == InitJoin /\ [][NextJoin]_vars

\* One instance, the only member of its namespace, under a registry that
\* answers every request and a scheduler that is fair to the threads: the ping
\* thread and the balancer thread go on whenever they can, and a pthread_join
\* returns once the thread has.  A wait for a change that no change ends is not
\* a request the registry owes an answer to, and the failure of the wait is
\* not a step the threads can count on.
EtcdWaitError(h) ==
    /\ bal_pc[h] = "wait"
    /\ cl[h].type = CT_ETCD
    /\ lastOp'.op = "thread"

NextLeave ==
    \/ cluster_join("h1", "none")
    \/ cluster_leave("h1")
    \/ cluster_destroy("h1")
    \/ cluster_leave_return("h1")
    \/ cluster_ping_thread_("h1")
    \/ cluster_balancer_thread_("h1")

FairLeave ==
    /\ WF_vars(cluster_ping_thread_("h1"))
    /\ WF_vars(cluster_balancer_thread_("h1") /\ ~EtcdWaitError("h1"))
    /\ WF_vars(cluster_leave_return("h1"))

SpecLeave == InitJoin /\ [][NextLeave]_vars /\ FairLeave

\* One instance in a process that forks: the handle h1, configured for a
\* dynamic registry and a fork mode, joins and leaves, and the process forks,
\* which runs the prepare hook before, and after it the parent hook in the
\* parent and the child hook on the child's copy h2 of the handle.  The child
\* may leave and destroy its copy, and the process forks again when it has no
\* child.  The registry answers every request.  A call on a handle whose lock
\* is corrupt is one that takes the write lock.
\* ForkIds: the identifier the child generates when it resets its own.
ForkIds == {<<2>>}

LockUsable(h) == cl[h].lock = "free"

InitFork ==
    /\ \E t \in Dynamic, b \in BOOLEAN, m \in ForkModes :
          cl = [h \in Handles |->
                   IF h = "h1"
                   THEN [Member(<<1>>, t, 1) EXCEPT !.balancer = b, !.forkmode = m]
                   ELSE Freed]
    /\ reg = [ns \in Namespaces |-> EmptyDir]
    /\ ping_pc = [h \in Handles |-> "none"]
    /\ bal_pc = [h \in Handles |-> "none"]
    /\ wake = [h \in Handles |-> FALSE]
    /\ alive = [h \in Handles |-> h = "h1"]
    /\ app = [h \in Handles |-> "idle"]
    /\ fresh = [h \in Handles |-> FALSE]
    /\ lastOp = NoOp

NextFork ==
    \/ cluster_join("h1", "none") /\ LockUsable("h1")
    \/ cluster_leave("h1") /\ LockUsable("h1")
    \/ \E h \in Handles : cluster_leave_return(h)
    \/ \E h \in Handles : cluster_ping_thread_(h)
    \/ \E h \in Handles : cluster_balancer_thread_(h)
    \/ cluster_etcd_prepare_("h1") /\ LockUsable("h1") /\ ~alive["h2"]
    \/ \E outcome \in RdlockOutcomes : cluster_etcd_prepare_return("h1", outcome)
    \/ fork("h1", "h2")
    \/ \E outcome \in UnlockOutcomes : cluster_etcd_parent_("h1", outcome)
    \/ \E id \in ForkIds \cup {cl["h2"].instid} : cluster_etcd_child_("h2", id)
    \/ cluster_wrlock_("h1")
    \/ cluster_leave("h2")
    \/ cluster_destroy("h2")
    \/ Expire(NsOf(cl["h1"]), <<1>>)

SpecFork == InitFork /\ [][NextFork]_vars

\* Two instances and nothing else in the namespace: the first joins and stays,
\* the second joins, pings and leaves, again and again.  The threads of both
\* are scheduled fairly and the registry answers.
NextPair ==
    \/ cluster_join("h1", "none")
    \/ cluster_join("h2", "none")
    \/ cluster_leave("h2")
    \/ cluster_leave_return("h2")
    \/ \E h \in Handles : cluster_ping_thread_(h)
    \/ \E h \in Handles : cluster_balancer_thread_(h) /\ ~EtcdWaitError(h)

\* a balance pass of h's balancer thread
BalancePass(h) == cluster_balancer_thread_(h) /\ lastOp'.op = "balance"

\* The SQL balancer thread makes a pass whenever CLUSTER_SQL_MAX_BALANCEWAIT
\* seconds have gone by since its last, so a thread that polls for ever makes
\* passes for ever; the etcd balancer thread makes one whenever its wait ends.
FairPair ==
    /\ \A h \in Handles : WF_vars(cluster_ping_thread_(h))
    /\ \A h \in Handles : WF_vars(cluster_balancer_thread_(h) /\ ~EtcdWaitError(h))
    /\ \A h \in Handles : SF_vars(BalancePass(h))
    /\ WF_vars(cluster_leave_return("h2"))

SpecPair == InitCluster /\ [][NextPair]_vars /\ FairPair

\* Two instances of which the second crashes: its process ends with no leave,
\* its threads with it, and its record stays until the registry expires it,
\* which the registry does.  The first instance stays; its threads are
\* scheduled fairly and the registry answers them.  The first instance's own
\* record expires too if a refresh of it was late.
Crash(h) ==
    /\ alive[h]
    /\ Joined(h)
    /\ app[h] = "idle"
    /\ alive' = [alive EXCEPT ![h] = FALSE]
    /\ ping_pc' = [ping_pc EXCEPT ![h] = "none"]
    /\ bal_pc' = [bal_pc EXCEPT ![h] = "none"]
    /\ wake' = [wake EXCEPT ![h] = FALSE]
    /\ fresh' = [fresh EXCEPT ![h] = FALSE]
    /\ lastOp' = EnvStep("crash")
    /\ UNCHANGED <<cl, reg, app>>

\* the registry expires the record of the crashed instance
ExpireCrashed == ~alive["h2"] /\ Expire(NsOf(cl["h2"]), cl["h2"].instid)

NextCrash ==
    \/ \E h \in Handles : cluster_join(h, "none")
    \/ \E h \in Handles : cluster_ping_thread_(h)
    \/ \E h \in Handles : cluster_balancer_thread_(h) /\ ~EtcdWaitError(h)
    \/ Crash("h2")
    \/ ExpireCrashed
    \/ Expire(NsOf(cl["h1"]), cl["h1"].instid)

FairCrash ==
    /\ FairPair
    /\ WF_vars(ExpireCrashed)

SpecCrash == InitCluster /\ [][NextCrash]_vars /\ FairCrash

\* Several application threads on one handle.  Here app[h][t] is the position
\* of application thread t in a call on h: "idle"; "dispatch", cluster_join has
\* read the flags under the read lock, found CF_JOINED clear and unlocked;
\* "callback", the back-end's join has unlocked and the balancer callback it
\* invoked is running; "leaving", the back-end's leave waits in pthread_join.
\* The steps between are taken under the write lock and are one action each.
Threads == {"t1", "t2"}

Move(h, t, pc) == app' = [app EXCEPT ![h][t] = pc]

\* cluster_join up to the dispatch on the type
thread_cluster_join(h, t) ==
    /\ app[h][t] = "idle"
    /\ IF Joined(h)
       THEN /\ lastOp' = Op("join", h, 0, 0, ENONE, <<>>)
            /\ UNCHANGED app
       ELSE /\ lastOp' = Step("join_check", h, <<>>)
            /\ Move(h, t, "dispatch")
    /\ UNCHANGED <<cl, reg, ping_pc, bal_pc, wake, alive, fresh>>

\* the most pairs of threads a handle has lost the ids of
MaxOrphans == 1

\* a thread of the pair the handle knows is running
Running(h) == ping_pc[h] = "loop" \/ bal_pc[h] \notin {"none", "done"}

\* the threads are created and CF_JOINED is set: the end of a dynamic join.
\* (pthread_create overwrites the thread ids; threads created by a join that
\* ended before go on running and are no longer known to the handle.)
ThreadsCreated(h, c) ==
    LET pinger == c.type = CT_ETCD \/ CF_PASSIVE \notin c.flags
    IN  /\ Running(h) => c.orphans < MaxOrphans
        /\ cl' = [cl EXCEPT ![h] = [c EXCEPT !.ping_thread = pinger,
                                             !.balancer_thread = TRUE,
                                             !.flags = @ \cup {CF_JOINED},
                                             !.orphans = IF Running(h) THEN @ + 1
                                                         ELSE @]]
        /\ ping_pc' = [ping_pc EXCEPT ![h] = IF pinger THEN "loop" ELSE "none"]
        /\ bal_pc' = [bal_pc EXCEPT ![h] = "check"]

\* cluster_static_join_, or cluster_etcd_join_ / cluster_sql_join_ as far as
\* the callback of the initial balance
thread_join_body(h, t) ==
    /\ app[h][t] = "dispatch"
    /\ UNCHANGED alive
    /\ \/ /\ cl[h].type = CT_STATIC
          /\ UNCHANGED <<reg, ping_pc, bal_pc, wake, fresh>>
          /\ LET c1 == [cl[h] EXCEPT !.total_threads = StaticTotal(cl[h])]
                 c2 == [c1 EXCEPT !.flags = @ \cup {CF_JOINED}]
                 cbs == cluster_rebalanced_(c2, HeldAfter("none", StaticJoinLocks))
             IN  IF StaticRejects(c1)
                 THEN /\ cl' = [cl EXCEPT ![h] = c1]
                      /\ lastOp' = Op("join", h, 0, -1, EINVAL, <<>>)
                      /\ Move(h, t, "idle")
                 ELSE /\ cl' = [cl EXCEPT ![h] = c2]
                      /\ lastOp' = Step("join_body", h, cbs)
                      /\ Move(h, t, IF cbs = <<>> THEN "idle" ELSE "callback")
       \/ /\ cl[h].type \in Dynamic
          /\ LET c1 == [cl[h] EXCEPT !.inst_index = -1, !.conn = TRUE]
                 dir == reg[NsOf(c1)]
                 pinged == IF c1.type = CT_ETCD THEN cluster_etcd_ping_(c1, dir, FALSE)
                           ELSE cluster_sql_ping_(c1, dir)
                 b == cluster_balance_(c1, pinged)
             IN  /\ reg' = [reg EXCEPT ![NsOf(c1)] = pinged]
                 /\ wake' = [WakeAfter(NsOf(c1)) EXCEPT ![h] = FALSE]
                 /\ fresh' = [FreshAfter(NsOf(c1), pinged) EXCEPT ![h] = TRUE]
                 /\ lastOp' = Io(Step("join_body", h, b.cbs),
                                 PingIo(c1, FALSE, HeldAfter("none", JoinLocks))
                                     \o BalanceIo(HeldAfter("none", JoinLocks)))
                 /\ IF b.cbs = <<>>
                    THEN /\ ThreadsCreated(h, b.c)
                         /\ Move(h, t, "idle")
                    ELSE /\ cl' = [cl EXCEPT ![h] = b.c]
                         /\ Move(h, t, "callback")
                         /\ UNCHANGED <<ping_pc, bal_pc>>

\* the callback returns; a dynamic join takes the write lock again, creates
\* the threads and sets CF_JOINED; the join returns 0
thread_join_return(h, t) ==
    /\ app[h][t] = "callback"
    /\ Move(h, t, "idle")
    /\ lastOp' = Op("join", h, 0, 0, ENONE, <<>>)
    /\ UNCHANGED <<reg, wake, alive, fresh>>
    /\ IF cl[h].type = CT_STATIC
       THEN UNCHANGED <<cl, ping_pc, bal_pc>>
       ELSE ThreadsCreated(h, cl[h])

\* cluster_leave: nothing when not joined; the static leave; the dynamic leave
\* up to its pthread_join (one thread at a time waits there)
thread_cluster_leave(h, t) ==
    /\ app[h][t] = "idle"
    /\ \A u \in Threads : app[h][u] # "leaving"
    /\ UNCHANGED <<reg, ping_pc, bal_pc, wake, alive, fresh>>
    /\ \/ /\ ~Joined(h)
          /\ lastOp' = Op("leave", h, 0, 0, ENONE, <<>>)
          /\ UNCHANGED <<cl, app>>
       \/ /\ Joined(h)
          /\ cl[h].type = CT_STATIC
          /\ cl' = [cl EXCEPT ![h].flags = @ \ {CF_JOINED, CF_LEAVING}]
          /\ lastOp' = Op("leave", h, 0, 0, ENONE, <<>>)
          /\ UNCHANGED app
       \/ /\ Joined(h)
          /\ cl[h].type \in Dynamic
          /\ cl' = [cl EXCEPT ![h].flags = @ \cup {CF_LEAVING}]
          /\ lastOp' = Step("leave_begin", h, <<>>)
          /\ Move(h, t, "leaving")

thread_leave_return(h, t) ==
    /\ app[h][t] = "leaving"
    /\ ping_pc[h] \in {"none", "done"}
    /\ bal_pc[h] \in {"none", "done"}
    /\ cl' = [cl EXCEPT ![h] = LeaveUnwind(cl[h])]
    /\ ping_pc' = [ping_pc EXCEPT ![h] = "none"]
    /\ bal_pc' = [bal_pc EXCEPT ![h] = "none"]
    /\ wake' = [wake EXCEPT ![h] = FALSE]
    /\ fresh' = [fresh EXCEPT ![h] = FALSE]
    /\ Move(h, t, "idle")
    /\ lastOp' = Op("leave", h, 0, 0, ENONE, <<>>)
    /\ UNCHANGED <<reg, alive>>

\* A pair of threads the handle has lost the ids of ends as the others do: its
\* threads read CF_LEAVING under the read lock, and its ping thread deletes the
\* record.  No pthread_join waits for them.  (Until then they refresh the
\* record and make balance passes like the pair the handle knows; those steps
\* are left out.)
orphan_exit(h) ==
    /\ cl[h].orphans > 0
    /\ CF_LEAVING \in cl[h].flags
    /\ LET dir == reg[NsOf(cl[h])]
           gone == Unpinged(cl[h], dir)
       IN  /\ reg' = [reg EXCEPT ![NsOf(cl[h])] = gone]
           /\ wake' = IF cl[h].type = CT_ETCD /\ gone # dir
                      THEN WakeAfter(NsOf(cl[h])) ELSE wake
           /\ fresh' = FreshAfter(NsOf(cl[h]), gone)
           /\ lastOp' = Io(Step("orphan", h, <<>>),
                           IF gone = dir THEN <<>>
                           ELSE <<Req("delete", FALSE, HeldAfter("none", UnpingLocks))>>)
    /\ cl' = [cl EXCEPT ![h].orphans = @ - 1]
    /\ UNCHANGED <<ping_pc, bal_pc, alive, app>>

\* One handle with a balancer callback, static (index 0 of MaxTotal) or
\* dynamic, used by two threads of the application.
InitThreads ==
    /\ \E t \in {CT_STATIC} \cup Dynamic :
          cl = [h \in Handles |->
                   IF h = "h1"
                   THEN [Member(<<1>>, t, 1) EXCEPT
                            !.total_threads = IF t = CT_STATIC THEN MaxTotal ELSE 0]
                   ELSE Freed]
    /\ reg = [ns \in Namespaces |-> EmptyDir]
    /\ ping_pc = [h \in Handles |-> "none"]
    /\ bal_pc = [h \in Handles |-> "none"]
    /\ wake = [h \in Handles |-> FALSE]
    /\ alive = [h \in Handles |-> h = "h1"]
    /\ app = [h \in Handles |-> [t \in Threads |-> "idle"]]
    /\ fresh = [h \in Handles |-> FALSE]
    /\ lastOp = NoOp

NextThreads ==
    \/ \E t \in Threads : thread_cluster_join("h1", t)
    \/ \E t \in Threads : thread_join_body("h1", t)
    \/ \E t \in Threads : thread_join_return("h1", t)
    \/ \E t \in Threads : thread_cluster_leave("h1", t)
    \/ \E t \in Threads : thread_leave_return("h1", t)
    \/ cluster_ping_thread_("h1")
    \/ cluster_balancer_thread_("h1")
    \/ orphan_exit("h1")
    \/ \E ns \in Namespaces : ns = NsOf(cl["h1"]) /\ Expire(ns, <<1>>)

SpecThreads == InitThreads /\ [][NextThreads]_vars

\* ------------------------------------------------- the ping thread's clock
\* The ping thread second by second.  Here ping_pc[h] holds the thread's
\* position and its local count, and, for the model, slept: the seconds the
\* thread has slept since it began or since its last refresh that succeeded,
\* refreshed: whether one has, and failed: whether a refresh has failed.  The
\* record was last written when the thread began (by the join) or last
\* refreshed, so the registry may drop it once slept has reached the ttl.
CLUSTER_DEFAULT_REFRESH == 30
CLUSTER_DEFAULT_TTL == 120

\* the most seconds counted since the thread began or last refreshed
MaxElapsed == 125

UpTo(n, max) == IF n < max THEN n ELSE max

PingLocals(pc, count, slept, refreshed) ==
    [pc |-> pc, count |-> count, slept |-> slept, refreshed |-> refreshed,
     failed |-> FALSE]

\* a round with count <= refresh, were count not incremented
ping_thread_sleep_nocount(h) ==
    /\ ping_pc[h].pc = "loop"
    /\ CF_LEAVING \notin cl[h].flags
    /\ ping_pc[h].count <= CLUSTER_DEFAULT_REFRESH
    /\ ping_pc' = [ping_pc EXCEPT ![h].slept = UpTo(@ + 1, MaxElapsed)]
    /\ lastOp' = Step("sleep", h, <<>>)
    /\ UNCHANGED <<cl, reg, bal_pc, wake, alive, app, fresh>>

\* a round with count <= refresh: unlock, sleep(1), count++
ping_thread_sleep(h) ==
    /\ ping_pc[h].pc = "loop"
    /\ CF_LEAVING \notin cl[h].flags
    /\ ping_pc[h].count <= CLUSTER_DEFAULT_REFRESH
    /\ ping_pc' = [ping_pc EXCEPT ![h].count = @ + 1,
                                  ![h].slept = UpTo(@ + 1, MaxElapsed)]
    /\ lastOp' = Step("sleep", h, <<>>)
    /\ UNCHANGED <<cl, reg, bal_pc, wake, alive, app, fresh>>

\* a round with count > refresh: the ping, with ETCD_EXISTS for etcd.  If it
\* succeeds count is set to 0; if it fails (the registry refuses, or cannot be
\* reached) the thread unlocks, sleeps 5 seconds and tries again.
ping_thread_refresh(h, ok) ==
    /\ ping_pc[h].pc = "loop"
    /\ CF_LEAVING \notin cl[h].flags
    /\ ping_pc[h].count > CLUSTER_DEFAULT_REFRESH
    /\ LET dir == reg[NsOf(cl[h])]
           io == PingIo(cl[h], TRUE, HeldAfter("none", PingLocks))
       IN  IF ok
           THEN /\ cl[h].type = CT_ETCD => cl[h].instid \in DOMAIN dir
                /\ reg' = [reg EXCEPT ![NsOf(cl[h])] = Refreshed(cl[h], dir)]
                /\ fresh' = FreshAfter(NsOf(cl[h]), Refreshed(cl[h], dir))
                /\ ping_pc' = [ping_pc EXCEPT ![h].count = 0, ![h].slept = 0,
                                              ![h].refreshed = TRUE]
                /\ lastOp' = Io(Step("refresh", h, <<>>), io)
           ELSE /\ ping_pc' = [ping_pc EXCEPT ![h].slept = UpTo(@ + 5, MaxElapsed),
                                              ![h].failed = TRUE]
                /\ lastOp' = Io(Step("retry", h, <<>>), io)
                /\ UNCHANGED <<reg, fresh>>
    /\ UNCHANGED <<cl, bal_pc, wake, alive, app>>

\* cluster_etcd_leave_ / cluster_sql_leave_ set CF_LEAVING and wait for the thread
ping_leave(h) ==
    /\ Callable(h)
    /\ Joined(h)
    /\ cl' = [cl EXCEPT ![h].flags = @ \cup {CF_LEAVING}]
    /\ app' = [app EXCEPT ![h] = "leave"]
    /\ lastOp' = Step("leave_begin", h, <<>>)
    /\ UNCHANGED <<reg, ping_pc, bal_pc, wake, alive, fresh>>

\* a round that finds CF_LEAVING: the loop ends, the record is removed
ping_thread_exit(h) ==
    /\ ping_pc[h].pc = "loop"
    /\ CF_LEAVING \in cl[h].flags
    /\ LET dir == reg[NsOf(cl[h])]
       IN  /\ reg' = [reg EXCEPT ![NsOf(cl[h])] = Unpinged(cl[h], dir)]
           /\ fresh' = FreshAfter(NsOf(cl[h]), Unpinged(cl[h], dir))
           /\ lastOp' = Io(Step("exit", h, <<>>),
                           <<Req("delete", FALSE, HeldAfter("none", UnpingLocks))>>)
    /\ ping_pc' = [ping_pc EXCEPT ![h].pc = "done"]
    /\ UNCHANGED <<cl, bal_pc, wake, alive, app>>

\* the registry drops h's record, not written for ttl seconds
ExpireLease(h) ==
    /\ ping_pc[h].slept >= CLUSTER_DEFAULT_TTL
    /\ \E ns \in Namespaces : ns = NsOf(cl[h]) /\ Expire(ns, cl[h].instid)

\* One instance joined to a dynamic registry, from the creation of its ping
\* thread (count = refresh) to the thread's end; its record expires when it
\* was not refreshed in time.  A refresh may fail for want of an answer.
InitPing ==
    /\ \E t \in Dynamic :
          cl = [h \in Handles |->
                   IF h = "h1"
                   THEN [Member(<<1>>, t, 1) EXCEPT
                            !.flags = {CF_JOINED}, !.conn = TRUE,
                            !.inst_index = 0, !.total_threads = 1,
                            !.ping_thread = TRUE, !.balancer_thread = TRUE]
                   ELSE Freed]
    /\ reg = [ns \in Namespaces |->
                 IF ns = NsOf(cl["h1"]) THEN Put(EmptyDir, <<1>>, 1) ELSE EmptyDir]
    /\ ping_pc = [h \in Handles |->
                     IF h = "h1"
                     THEN PingLocals("loop", CLUSTER_DEFAULT_REFRESH, 0, FALSE)
                     ELSE PingLocals("none", 0, 0, FALSE)]
    /\ bal_pc = [h \in Handles |-> "none"]
    /\ wake = [h \in Handles |-> FALSE]
    /\ alive = [h \in Handles |-> h = "h1"]
    /\ app = [h \in Handles |-> "idle"]
    /\ fresh = [h \in Handles |-> h = "h1"]
    /\ lastOp = NoOp

NextPing ==
    \/ ping_thread_sleep("h1")
    \/ \E ok \in BOOLEAN : ping_thread_refresh("h1", ok)
    \/ ping_leave("h1")
    \/ ping_thread_exit("h1")
    \/ ExpireLease("h1")

SpecPing == InitPing /\ [][NextPing]_vars

\* The threads are scheduled, and the registry comes to answer: a refresh that
\* the registry would accept is not failed for ever.
FairPing ==
    /\ WF_vars(ping_thread_sleep("h1"))
    /\ SF_vars(ping_thread_refresh("h1", TRUE))
    /\ WF_vars(ping_thread_exit("h1"))

SpecPingFair == SpecPing /\ FairPing

\* ---------------------------------------------- the SQL balancer's clock
\* The balancer thread of an SQL instance second by second.  Here bal_pc[h]
\* holds the thread's position ("check": about to read the flags; "sleep": in
\* sleep(CLUSTER_SQL_BALANCE_SLEEP), left seconds to go; "done") and, of its
\* locals and the table, what its tests depend on: since, the seconds from
\* last to now; polled, whether lastbuf is set; touched, the rows whose column
\* "updated" is at or after lastbuf.  For the model, stale counts the seconds
\* for which the rows have differed from what the last balance pass read; a
\* balance pass leaves the count it ended in lastOp.arg.
\* Time passes while the thread sleeps; the queries take none.
CLUSTER_SQL_BALANCE_SLEEP == 5
CLUSTER_SQL_MAX_BALANCEWAIT == 30

\* the most seconds counted in since and in stale
MaxClock == 40

PollLocals(pc, left, since, polled, touched, stale) ==
    [pc |-> pc, left |-> left, since |-> since, polled |-> polled,
     touched |-> touched, stale |-> stale]

\* the top of a round: CF_LEAVING ends the thread; else it unlocks and sleeps
cluster_sql_poll_check(h) ==
    /\ bal_pc[h].pc = "check"
    /\ bal_pc' = [bal_pc EXCEPT
                     ![h].pc = IF CF_LEAVING \in cl[h].flags THEN "done" ELSE "sleep",
                     ![h].left = IF CF_LEAVING \in cl[h].flags
                                 THEN 0 ELSE CLUSTER_SQL_BALANCE_SLEEP]
    /\ lastOp' = Step("thread", h, <<>>)
    /\ UNCHANGED <<cl, reg, ping_pc, wake, alive, app, fresh>>

\* a second of the sleep
cluster_sql_poll_sleep(h) ==
    /\ bal_pc[h].pc = "sleep"
    /\ bal_pc[h].left > 0
    /\ bal_pc' = [bal_pc EXCEPT
                     ![h].left = @ - 1,
                     ![h].since = UpTo(@ + 1, MaxClock),
                     ![h].stale = IF fresh[h] THEN 0 ELSE UpTo(@ + 1, MaxClock)]
    /\ lastOp' = Step("sleep", h, <<>>)
    /\ UNCHANGED <<cl, reg, ping_pc, wake, alive, app, fresh>>

\* the rows the poll selects: the live rows, updated at or after lastbuf when
\* there was a poll before
PollRows(h) ==
    {id \in DOMAIN reg[NsOf(cl[h])] : ~bal_pc[h].polled \/ id \in bal_pc[h].touched}

\* the test of the poll, were there no forced pass
PollBalancesRowsOnly(h) == PollRows(h) # {}

\* the poll is followed by a balance pass unless it selected no row and fewer
\* than MAX_BALANCEWAIT seconds have passed since the last pass
PollBalances(h) ==
    ~(PollRows(h) = {} /\ bal_pc[h].since < CLUSTER_SQL_MAX_BALANCEWAIT)

\* the poll after the sleep, and the balance pass that follows it
cluster_sql_poll(h) ==
    /\ bal_pc[h].pc = "sleep"
    /\ bal_pc[h].left = 0
    /\ IF PollBalances(h)
       THEN LET b == cluster_balance_(cl[h], reg[NsOf(cl[h])])
            IN  /\ cl' = [cl EXCEPT ![h] = b.c]
                /\ fresh' = [fresh EXCEPT ![h] = TRUE]
                /\ bal_pc' = [bal_pc EXCEPT ![h].pc = "check", ![h].polled = TRUE,
                                            ![h].touched = {}, ![h].since = 0,
                                            ![h].stale = 0]
                /\ lastOp' = Io([Step("balance", h, b.cbs) EXCEPT
                                     !.arg = bal_pc[h].stale],
                                <<Req("poll", FALSE, HeldAfter("none", WaitLocks))>>
                                    \o BalanceIo(HeldAfter("none", PassLocks)))
       ELSE /\ bal_pc' = [bal_pc EXCEPT ![h].pc = "check", ![h].polled = TRUE,
                                        ![h].touched = {}]
            /\ lastOp' = Io(Step("poll", h, <<>>),
                            <<Req("poll", FALSE, HeldAfter("none", WaitLocks))>>)
            /\ UNCHANGED <<cl, fresh>>
    /\ UNCHANGED <<reg, ping_pc, wake, alive, app>>

\* an instance (h itself, by its ping thread, or another) writes its row
RowWritten(h, id, n) ==
    /\ bal_pc[h].pc # "done"
    /\ id = cl[h].instid => n = cl[h].inst_threads
    /\ reg' = [reg EXCEPT ![NsOf(cl[h])] = Put(@, id, n)]
    /\ fresh' = FreshAfter(NsOf(cl[h]), Put(reg[NsOf(cl[h])], id, n))
    /\ bal_pc' = [bal_pc EXCEPT ![h].touched = @ \cup {id}]
    /\ lastOp' = EnvStep("ping")
    /\ UNCHANGED <<cl, ping_pc, wake, alive, app>>

\* a row expires, or is deleted: no row is updated by that
RowGone(h, id) ==
    /\ bal_pc[h].pc # "done"
    /\ id \in DOMAIN reg[NsOf(cl[h])]
    /\ reg' = [reg EXCEPT ![NsOf(cl[h])] = Del(@, id)]
    /\ fresh' = FreshAfter(NsOf(cl[h]), Del(reg[NsOf(cl[h])], id))
    /\ lastOp' = EnvStep("expire")
    /\ UNCHANGED <<cl, ping_pc, bal_pc, wake, alive, app>>

\* cluster_sql_leave_ sets CF_LEAVING and waits for the thread
poll_leave(h) ==
    /\ Callable(h)
    /\ Joined(h)
    /\ cl' = [cl EXCEPT ![h].flags = @ \cup {CF_LEAVING}]
    /\ app' = [app EXCEPT ![h] = "leave"]
    /\ lastOp' = Step("leave_begin", h, <<>>)
    /\ UNCHANGED <<reg, ping_pc, bal_pc, wake, alive, fresh>>

PollIds == {<<1>>, Foreign}

\* One instance joined to an SQL registry, from the creation of its balancer
\* thread (last = 0, lastbuf empty): its own row is there and balanced, and
\* rows come, are refreshed and go.  The balance passes succeed.
InitPoll ==
    /\ cl = [h \in Handles |->
                IF h = "h1"
                THEN [Member(<<1>>, CT_SQL, 1) EXCEPT
                         !.flags = {CF_JOINED}, !.conn = TRUE,
                         !.inst_index = 0, !.total_threads = 1,
                         !.ping_thread = TRUE, !.balancer_thread = TRUE]
                ELSE Freed]
    /\ reg = [ns \in Namespaces |->
                 IF ns = NsOf(cl["h1"]) THEN Put(EmptyDir, <<1>>, 1) ELSE EmptyDir]
    /\ ping_pc = [h \in Handles |-> "none"]
    /\ bal_pc = [h \in Handles |->
                    PollLocals(IF h = "h1" THEN "check" ELSE "done", 0,
                               MaxClock, FALSE, {}, 0)]
    /\ wake = [h \in Handles |-> FALSE]
    /\ alive = [h \in Handles |-> h = "h1"]
    /\ app = [h \in Handles |-> "idle"]
    /\ fresh = [h \in Handles |-> h = "h1"]
    /\ lastOp = NoOp

NextPoll ==
    \/ cluster_sql_poll_check("h1")
    \/ cluster_sql_poll_sleep("h1")
    \/ cluster_sql_poll("h1")
    \/ \E id \in PollIds, n \in 1..MaxWorkers : RowWritten("h1", id, n)
    \/ \E id \in PollIds : RowGone("h1", id)
    \/ poll_leave("h1")

SpecPoll == InitPoll /\ [][NextPoll]_vars

\* ------------------------------------------------- worker counts of any sign
\* cluster_set_workers takes any int, and a ping writes the count as it is:
\* one instance between instances of other processes, its count and theirs
\* positive, zero or negative.
WorkerCounts == (0 - MaxWorkers)..MaxWorkers

\* the identifier of the other instances sorts before that of the handle
OtherIds == {<<1>>}

InitCounts ==
    /\ \E t \in Dynamic :
          cl = [h \in Handles |-> IF h = "h1" THEN Member(Foreign, t, 1) ELSE Freed]
    /\ reg = [ns \in Namespaces |-> EmptyDir]
    /\ ping_pc = [h \in Handles |-> "none"]
    /\ bal_pc = [h \in Handles |-> "none"]
    /\ wake = [h \in Handles |-> FALSE]
    /\ alive = [h \in Handles |-> h = "h1"]
    /\ app = [h \in Handles |-> "idle"]
    /\ fresh = [h \in Handles |-> FALSE]
    /\ lastOp = NoOp

NextCounts ==
    \/ \E n \in WorkerCounts : cluster_set_workers("h1", n)
    \/ cluster_join("h1", "none")
    \/ cluster_leave("h1")
    \/ cluster_leave_return("h1")
    \/ cluster_ping_thread_("h1")
    \/ cluster_balancer_thread_("h1")
    \/ \E id \in OtherIds : Expire(NsOf(cl["h1"]), id)
    \/ \E id \in OtherIds, n \in WorkerCounts : OtherPing(NsOf(cl["h1"]), id, n)

SpecCounts == InitCounts /\ [][NextCounts]_vars

\* --------------------------------------- a balance pass and its callback
\* A balance pass step by step, beside a second thread of the application that
\* calls the setters.  Here bal_pc[h] holds the position of the thread that
\* makes the balance passes on h, first the thread inside cluster_join and
\* then the balancer thread it creates, with the locals base and total of
\* cluster_etcd_balance_ / cluster_sql_balance_: "none", no join yet;
\* "unlocked", the pass has stored base and total and released the write
\* lock, and cluster_rebalanced_ has not yet taken the read lock; "wait", the
\* balancer thread waits for a change.  joining tells a pass of cluster_join
\* from one of the balancer thread.
PassLocals(pc, joining, base, total) ==
    [pc |-> pc, joining |-> joining, base |-> base, total |-> total]

\* a balance pass as far as its cluster_unlock_: the assignment is stored when
\* it differs from what the struct holds
PassStore(h, c, dir, joining) ==
    LET a == Assign(c, dir)
        changed == a.total # c.total_threads \/ a.base # c.inst_index
        c2 == [c EXCEPT !.inst_index = a.base, !.total_threads = a.total]
        entered == [c EXCEPT !.ping_thread = TRUE, !.balancer_thread = TRUE,
                             !.flags = @ \cup {CF_JOINED}]
    IN  IF changed
        THEN /\ cl' = [cl EXCEPT ![h] = c2]
             /\ bal_pc' = [bal_pc EXCEPT ![h] = PassLocals("unlocked", joining,
                                                           a.base, a.total)]
        ELSE /\ cl' = [cl EXCEPT ![h] = IF joining THEN entered ELSE c]
             /\ bal_pc' = [bal_pc EXCEPT ![h] = PassLocals("wait", FALSE,
                                                           a.base, a.total)]

\* cluster_join on a dynamic registry: the initial ping and the initial
\* balance pass as far as its cluster_unlock_
pass_join(h) ==
    /\ bal_pc[h].pc = "none"
    /\ ~Joined(h)
    /\ cl[h].type \in Dynamic
    /\ LET c1 == [cl[h] EXCEPT !.inst_index = -1, !.conn = TRUE]
           dir == reg[NsOf(c1)]
           pinged == IF c1.type = CT_ETCD THEN cluster_etcd_ping_(c1, dir, FALSE)
                     ELSE cluster_sql_ping_(c1, dir)
       IN  /\ reg' = [reg EXCEPT ![NsOf(c1)] = pinged]
           /\ fresh' = [fresh EXCEPT ![h] = TRUE]
           /\ PassStore(h, c1, pinged, TRUE)
           /\ lastOp' = Io(Step("pass", h, <<>>),
                           PingIo(c1, FALSE, HeldAfter("none", JoinLocks))
                               \o BalanceIo(HeldAfter("none", JoinLocks)))
    /\ UNCHANGED <<ping_pc, wake, alive, app>>

\* the balancer thread, woken by a change, makes a balance pass as far as
\* its cluster_unlock_
pass_balancer(h) ==
    /\ bal_pc[h].pc = "wait"
    /\ ~fresh[h]
    /\ PassStore(h, cl[h], reg[NsOf(cl[h])], FALSE)
    /\ fresh' = [fresh EXCEPT ![h] = TRUE]
    /\ lastOp' = Io(Step("pass", h, <<>>), BalanceIo(HeldAfter("none", PassLocks)))
    /\ UNCHANGED <<reg, ping_pc, wake, alive, app>>

\* cluster_rebalanced_ takes the read lock, copies the struct's fields, unlocks
\* and calls back; the pass takes the write lock again, and cluster_join
\* creates the threads and sets CF_JOINED
pass_rebalanced(h) ==
    /\ bal_pc[h].pc = "unlocked"
    /\ lastOp' = Step("callback", h, cluster_rebalanced_(cl[h], "none"))
    /\ cl' = [cl EXCEPT ![h] =
                 IF bal_pc[h].joining
                 THEN [@ EXCEPT !.ping_thread = TRUE, !.balancer_thread = TRUE,
                                !.flags = @ \cup {CF_JOINED}]
                 ELSE @]
    /\ bal_pc' = [bal_pc EXCEPT ![h].pc = "wait", ![h].joining = FALSE]
    /\ UNCHANGED <<reg, ping_pc, wake, alive, app, fresh>>

\* another instance writes its record, or its record goes
PassOther(h, dir) ==
    /\ dir # reg[NsOf(cl[h])]
    /\ reg' = [reg EXCEPT ![NsOf(cl[h])] = dir]
    /\ fresh' = FreshAfter(NsOf(cl[h]), dir)
    /\ lastOp' = EnvStep("other")
    /\ UNCHANGED <<cl, ping_pc, bal_pc, wake, alive, app>>

\* One handle with a balancer callback, set to a dynamic registry; one thread
\* of the application joins, another calls the setters at any time.
InitPass ==
    /\ \E t \in Dynamic :
          cl = [h \in Handles |-> IF h = "h1" THEN Member(Foreign, t, 1) ELSE Freed]
    /\ reg = [ns \in Namespaces |-> EmptyDir]
    /\ ping_pc = [h \in Handles |-> "none"]
    /\ bal_pc = [h \in Handles |-> PassLocals("none", FALSE, -1, 0)]
    /\ wake = [h \in Handles |-> FALSE]
    /\ alive = [h \in Handles |-> h = "h1"]
    /\ app = [h \in Handles |-> "idle"]
    /\ fresh = [h \in Handles |-> FALSE]
    /\ lastOp = NoOp

NextPass ==
    \/ pass_join("h1")
    \/ pass_balancer("h1")
    \/ pass_rebalanced("h1")
    \/ \E i \in -1..MaxIndex : cluster_static_set_index("h1", i)
    \/ \E t \in 0..MaxTotal : cluster_static_set_total("h1", t)
    \/ \E n \in 1..MaxWorkers : cluster_set_workers("h1", n)
    \/ \E n \in 1..MaxWorkers :
          PassOther("h1", Put(reg[NsOf(cl["h1"])], <<1>>, n))
    \/ PassOther("h1", Del(reg[NsOf(cl["h1"])], <<1>>))

SpecPass == InitPass /\ [][NextPass]_vars

\* ------------------------------------------------ the registry string
\* cluster->registry and the strings strdup gave it.  Here the struct has two
\* more fields: registry, the pointer, 0 for NULL or else the number of the
\* block it points to; and, for the model, heap: for each block strdup has
\* returned for the handle, in order, how often free has been called on it.
\* A block strdup returns is told from every block returned before.  heap
\* outlives the struct.
\* the most blocks strdup returns for a handle
MaxBlocks == 3

ENOMEM == "ENOMEM"

WithRegistry(c, ptr, heap) ==
    [f \in DOMAIN c \cup {"registry", "heap"} |->
        IF f = "registry" THEN ptr ELSE IF f = "heap" THEN heap ELSE c[f]]

\* free(ptr): nothing for NULL; a second free of a block is counted as such
free(heap, ptr) ==
    IF ptr = 0 THEN heap ELSE [heap EXCEPT ![ptr] = UpTo(@ + 1, 2)]

\* what free(ptr) does to the process: the free of a block freed before is
\* undefined, and the allocator may end the process there
FreeOutcomes(heap, ptr) ==
    IF ptr # 0 /\ heap[ptr] > 0 THEN {"continue", "abort"} ELSE {"continue"}

\* the call ends: with its result, or with the end of the process
HeapDone(h, name, arg, c, outcome) ==
    /\ cl' = [cl EXCEPT ![h] = c]
    /\ IF outcome = "abort"
       THEN /\ lastOp' = Op("abort", h, arg, 0, ENONE, <<>>)
            /\ alive' = [alive EXCEPT ![h] = FALSE]
            /\ app' = [app EXCEPT ![h] = "aborted"]
       ELSE /\ lastOp' = Op(name, h, arg, 0, ENONE, <<>>)
            /\ UNCHANGED <<alive, app>>
    /\ UNCHANGED <<reg, ping_pc, bal_pc, wake, fresh>>

\* cluster_set_registry on a handle that is not joined; dup tells whether
\* strdup returns a block
heap_set_registry(h, uri, dup) ==
    /\ Callable(h)
    /\ ~Joined(h)
    /\ LET c == cl[h]
           scheme == IF sql_scheme_exists(uri) THEN CT_SQL
                     ELSE IF uri = "http:" THEN CT_ETCD ELSE CT_STATIC
           p == Len(c.heap) + 1
       IN  \/ /\ uri = "NULL"
              /\ \E outcome \in FreeOutcomes(c.heap, c.registry) :
                    HeapDone(h, "set_registry", uri,
                             [c EXCEPT !.heap = free(c.heap, c.registry),
                                       !.type = CT_STATIC], outcome)
           \/ /\ uri # "NULL"
              /\ scheme \in Dynamic
              /\ dup
              /\ Len(c.heap) < MaxBlocks
              /\ \E outcome \in FreeOutcomes(c.heap, c.registry) :
                    HeapDone(h, "set_registry", uri,
                             [c EXCEPT !.heap = Append(free(c.heap, c.registry), 0),
                                       !.registry = p,
                                       !.type = scheme], outcome)
           \/ /\ uri # "NULL"
              /\ scheme \in Dynamic
              /\ ~dup
              /\ Refused(h, "set_registry", uri, ENOMEM)
           \/ /\ uri # "NULL"
              /\ scheme \notin Dynamic
              /\ Refused(h, "set_registry", uri, EINVAL)

\* cluster_destroy of a handle that is not joined: the strings are freed, then
\* the struct
heap_destroy(h) ==
    /\ Callable(h)
    /\ ~Joined(h)
    /\ \E outcome \in FreeOutcomes(cl[h].heap, cl[h].registry) :
          /\ cl' = [cl EXCEPT ![h] = WithRegistry(Freed, 0,
                                                  free(cl[h].heap, cl[h].registry))]
          /\ alive' = [alive EXCEPT ![h] = FALSE]
          /\ app' = [app EXCEPT ![h] = IF outcome = "abort" THEN "aborted" ELSE @]
          /\ lastOp' = Op(IF outcome = "abort" THEN "abort" ELSE "destroy",
                          h, 0, 0, ENONE, <<>>)
    /\ UNCHANGED <<reg, ping_pc, bal_pc, wake, fresh>>

\* cluster_create: calloc leaves registry NULL
heap_create(h) ==
    /\ ~alive[h]
    /\ app[h] = "idle"
    /\ cl' = [cl EXCEPT ![h] = WithRegistry(Created(<<1>>), 0, cl[h].heap)]
    /\ alive' = [alive EXCEPT ![h] = TRUE]
    /\ lastOp' = [NoOp EXCEPT !.h = h]
    /\ UNCHANGED <<reg, ping_pc, bal_pc, wake, app, fresh>>

\* One handle, created, given registries and destroyed, over and over.
InitHeap ==
    /\ cl = [h \in Handles |->
                WithRegistry(IF h = "h1" THEN Created(<<1>>) ELSE Freed, 0, <<>>)]
    /\ reg = [ns \in Namespaces |-> EmptyDir]
    /\ ping_pc = [h \in Handles |-> "none"]
    /\ bal_pc = [h \in Handles |-> "none"]
    /\ wake = [h \in Handles |-> FALSE]
    /\ alive = [h \in Handles |-> h = "h1"]
    /\ app = [h \in Handles |-> "idle"]
    /\ fresh = [h \in Handles |-> FALSE]
    /\ lastOp = NoOp

NextHeap ==
    \/ \E uri \in URIs, dup \in BOOLEAN : heap_set_registry("h1", uri, dup)
    \/ heap_destroy("h1")
    \/ heap_create("h1")

SpecHeap == InitHeap /\ [][NextHeap]_vars

\* ------------------------------------------------------------ properties
\* the step just taken is the call (or thread step) named op, made on handle h
Did(h, ops) == lastOp'.h = h /\ lastOp'.op \in ops

\* h's own record is in the namespace h addresses
Present(c, dir) == c.instid \in DOMAIN dir

JoinCalls == {"join", "join_passive"}

\* a balance pass of h completed in this step: the balancer thread's, or the
\* one inside a successful dynamic join
Balanced(h) ==
    \/ Did(h, {"balance"})
    \/ Did(h, JoinCalls) /\ ~Joined(h) /\ lastOp'.ret = 0 /\ cl'[h].type \in Dynamic

\* C2: after every successful balance pass in which the non-passive instance
\* is present in the snapshot, 0 <= inst_index <= total_workers - inst_workers
\* holds for the current inst_workers, whatever API calls (cluster_set_workers
\* before or after the join among them) and ping and balance steps came before.
C2_IndexWithinTotal ==
    [][\A h \in Handles :
          (/\ Balanced(h)
           /\ CF_PASSIVE \notin cl'[h].flags
           /\ Present(cl'[h], reg'[NsOf(cl'[h])]))
          => /\ 0 <= cl'[h].inst_index
             /\ cl'[h].inst_index <= cl'[h].total_threads - cl'[h].inst_threads]_vars

\* C3: every join or join_passive that returns success, on any back-end and
\* whatever total_workers was before and whatever the registry holds, has
\* invoked the rebalance callback (one being installed) at least once by the
\* time it returns.
C3_CallbackOnJoin ==
    [][\A h \in Handles :
          (/\ Did(h, JoinCalls)
           /\ ~Joined(h)
           /\ lastOp'.ret = 0
           /\ cl[h].balancer)
          => Len(lastOp'.cbs) >= 1]_vars

Setters ==
    {"set_env", "set_instance", "set_registry", "set_workers",
     "static_set_index", "static_set_total"}

StaticJoin(h) == Did(h, JoinCalls) /\ ~Joined(h) /\ cl[h].type = CT_STATIC

\* C5: a static join with static_index + inst_workers > static_total, or with
\* static_index < 0, fails with the invalid-argument error, does not set
\* joined, does not invoke the rebalance callback and leaves index, total and
\* workers as they were (an unset total reading as 1).
C5_StaticRejection ==
    [][\A h \in Handles :
          (/\ StaticJoin(h)
           /\ \/ cl[h].inst_index + cl[h].inst_threads > StaticTotal(cl[h])
              \/ cl[h].inst_index < 0)
          => /\ lastOp'.ret = -1
             /\ lastOp'.errno = EINVAL
             /\ CF_JOINED \notin cl'[h].flags
             /\ lastOp'.cbs = <<>>
             /\ cl'[h].inst_index = cl[h].inst_index
             /\ cl'[h].inst_threads = cl[h].inst_threads
             /\ StaticTotal(cl'[h]) = StaticTotal(cl[h])]_vars

\* C6: a static join succeeds for every configuration with static_total >= 1
\* and 0 <= static_index <= static_total - inst_workers, the boundary
\* static_index + inst_workers = static_total and a freshly created handle at
\* its defaults (one worker, index 0, total unset) included.
C6_StaticAcceptance ==
    [][\A h \in Handles :
          (/\ StaticJoin(h)
           /\ StaticTotal(cl[h]) >= 1
           /\ 0 <= cl[h].inst_index
           /\ cl[h].inst_index <= StaticTotal(cl[h]) - cl[h].inst_threads)
          => /\ lastOp'.ret = 0
             /\ CF_JOINED \in cl'[h].flags]_vars

GuardedSetters == Setters \ {"set_workers"}

C7_StaticJoinEffect ==
    [][\A h \in Handles :
          /\ (StaticJoin(h) /\ lastOp'.ret = 0)
             => /\ CF_JOINED \in cl'[h].flags
                /\ cl'[h].inst_index = cl[h].inst_index
                /\ cl'[h].total_threads = StaticTotal(cl[h])
                /\ cl'[h].inst_threads = cl[h].inst_threads
                /\ lastOp'.cbs =
                      IF cl[h].balancer
                      THEN <<[index |-> cl[h].inst_index,
                              workers |-> cl[h].inst_threads,
                              total |-> StaticTotal(cl[h]),
                              passive |-> FALSE, held |-> "none"]>>
                      ELSE <<>>
                /\ ping_pc'[h] = "none" /\ bal_pc'[h] = "none"
                /\ ~cl'[h].ping_thread /\ ~cl'[h].balancer_thread
          /\ (Joined(h) /\ cl[h].type = CT_STATIC /\ lastOp'.h = h)
             => /\ lastOp'.cbs = <<>>
                /\ ping_pc'[h] = "none" /\ bal_pc'[h] = "none"
                /\ alive'[h] => cl'[h].inst_index = cl[h].inst_index
                /\ Did(h, {"index"}) => lastOp'.ret = cl[h].inst_index + lastOp'.arg]_vars

\* a static join at index 1 of 3 has called back once
C7_Witness ==
    /\ lastOp.op = "join"
    /\ lastOp.ret = 0
    /\ ~lastOp.joined0
    /\ cl[lastOp.h].type = CT_STATIC
    /\ Len(lastOp.cbs) = 1
    /\ lastOp.cbs[1].index = 1
    /\ lastOp.cbs[1].total = 3

\* C8: leave on a handle that is not joined returns success and changes
\* nothing; after any leave returns, neither joined nor leaving is set and no
\* loop is running; destroy leaves before it releases the handle.
C8_IdempotentLeave ==
    [][\A h \in Handles :
          /\ (Did(h, {"leave"}) /\ ~Joined(h))
             => /\ lastOp'.ret = 0
                /\ UNCHANGED <<cl, reg, ping_pc, bal_pc, wake, alive, app, fresh>>
          /\ Did(h, {"leave", "destroy"})
             => /\ lastOp'.ret = 0
                /\ cl'[h].flags \cap {CF_JOINED, CF_LEAVING} = {}
                /\ ping_pc'[h] = "none" /\ bal_pc'[h] = "none"
                /\ ~cl'[h].ping_thread /\ ~cl'[h].balancer_thread
                /\ app'[h] = "idle"
          /\ Did(h, {"destroy"}) => ~alive'[h]
          /\ (alive[h] /\ ~alive'[h] /\ Joined(h) /\ cl[h].type \in Dynamic)
             => /\ app[h] = "destroy"
                /\ CF_LEAVING \in cl[h].flags
                /\ ping_pc[h] \in {"none", "done"}
                /\ bal_pc[h] \in {"none", "done"}]_vars

\* a leave of a joined dynamic handle has returned
C8_Witness ==
    /\ lastOp.op = "leave"
    /\ lastOp.joined0
    /\ cl[lastOp.h].type \in Dynamic
    /\ cl[lastOp.h].flags \cap {CF_JOINED, CF_LEAVING} = {}

Accessors == {"index", "total", "workers"}

\* C9: index(worker), total() and workers() return the not-joined error
\* (index -1, total and workers 0, errno EPERM) whenever the handle is not
\* joined; joined, they return inst_index + worker, total_workers and
\* inst_workers; they modify no state.
C9_Accessors ==
    [][\A h \in Handles :
          Did(h, Accessors)
          => /\ UNCHANGED <<cl, reg, ping_pc, bal_pc, wake, alive, app, fresh>>
             /\ ~Joined(h)
                => /\ lastOp'.errno = EPERM
                   /\ lastOp'.ret = IF lastOp'.op = "index" THEN -1 ELSE 0
             /\ Joined(h)
                => /\ lastOp'.errno = ENONE
                   /\ lastOp'.op = "index" => lastOp'.ret = cl[h].inst_index + lastOp'.arg
                   /\ lastOp'.op = "total" => lastOp'.ret = cl[h].total_threads
                   /\ lastOp'.op = "workers" => lastOp'.ret = cl[h].inst_threads]_vars

\* index(1) answered on a joined handle whose base index is 1
C9_Witness ==
    /\ lastOp.op = "index"
    /\ lastOp.joined0
    /\ lastOp.arg = 1
    /\ lastOp.ret = 2

\* C10: a passively joined instance never writes or deletes a membership
\* record and never runs a ping loop, on any dynamic back-end.
C10_PassiveSilent ==
    [][\A h \in Handles :
          (/\ lastOp'.h = h
           /\ cl'[h].type \in Dynamic
           /\ CF_PASSIVE \in cl'[h].flags
           /\ Joined(h) \/ CF_JOINED \in cl'[h].flags)
          => /\ reg' = reg
             /\ ping_pc'[h] # "loop"
             /\ ~cl'[h].ping_thread]_vars

\* the sum of the worker counts of the records of dir whose key is in keys
RECURSIVE SumOver(_, _)
SumOver(dir, keys) ==
    IF keys = {} THEN 0
    ELSE LET k == CHOOSE k \in keys : TRUE
         IN  dir[k] + SumOver(dir, keys \ {k})

\* the keys of dir that sort before id, byte-wise
Before(dir, id) == {k \in DOMAIN dir : strcmp(k, id) < 0}

\* the worker indices a record of the snapshot gives its instance
Range(c, dir) == c.inst_index .. (c.inst_index + dir[c.instid] - 1)

\* the handles whose last balance pass read the namespace ns as it is now
Settled(ns) ==
    {h \in Handles : /\ Joined(h) /\ fresh[h] /\ NsOf(cl[h]) = ns
                     /\ CF_PASSIVE \notin cl[h].flags
                     /\ Present(cl[h], reg[ns])}

\* the ranges of the settled handles are pairwise disjoint, lie within
\* [0, total), and cover it when every record of the snapshot is a settled handle's
Partitioned(ns) ==
    LET dir == reg[ns]
        S == Settled(ns)
    IN  /\ \A h \in S : Range(cl[h], dir) \subseteq 0 .. (cl[h].total_threads - 1)
        /\ \A g \in S, h \in S :
              g # h => /\ Range(cl[g], dir) \cap Range(cl[h], dir) = {}
                       /\ cl[g].total_threads = cl[h].total_threads
        /\ {cl[h].instid : h \in S} = DOMAIN dir
           => \A h \in S :
                 UNION {Range(cl[g], dir) : g \in S} = 0 .. (cl[h].total_threads - 1)

C11_PassiveView ==
    [][\A h \in Handles :
          (Balanced(h) /\ CF_PASSIVE \in cl'[h].flags)
          => LET dir == reg'[NsOf(cl'[h])]
             IN  /\ cl'[h].inst_index = -1
                 /\ cl'[h].total_threads = SumOver(dir, DOMAIN dir)]_vars

\* the struct a balance pass of h in this step started from: the handle as the
\* balancer thread found it, or, inside a join, the handle with inst_index
\* reset to -1
PrePass(h) ==
    IF Did(h, {"balance"}) THEN cl[h]
    ELSE [cl'[h] EXCEPT !.inst_index = -1, !.total_threads = cl[h].total_threads]

\* C14: a balance pass invokes the callback (when one is set) if and only if
\* the computed (base, total) differs from the stored (inst_index,
\* total_threads); when it differs both fields are stored before the callback,
\* which is handed the new pair; when it does not, the state is left untouched.
C14_CallbackOnChange ==
    [][\A h \in Handles :
          Balanced(h)
          => LET c == PrePass(h)
                 a == Assign(c, reg'[NsOf(c)])
                 cbs == lastOp'.cbs
             IN  IF a.base # c.inst_index \/ a.total # c.total_threads
                 THEN /\ cl'[h].inst_index = a.base
                      /\ cl'[h].total_threads = a.total
                      /\ Len(cbs) = (IF c.balancer THEN 1 ELSE 0)
                      /\ \A i \in 1..Len(cbs) :
                            cbs[i].index = a.base /\ cbs[i].total = a.total
                 ELSE /\ cbs = <<>>
                      /\ cl'[h].inst_index = c.inst_index
                      /\ cl'[h].total_threads = c.total_threads]_vars

\* the balancer thread made a pass that changed only the total, and called back
C14_Witness ==
    /\ lastOp.op = "balance"
    /\ Len(lastOp.cbs) = 1
    /\ lastOp.cbs[1].index = 0
    /\ lastOp.cbs[1].total = 2

\* C17: when a pass of the balancer thread of a joined, non-passive instance
\* holding a non-negative inst_index finds the instance's own record absent,
\* inst_index becomes -1 and the callback (when one is set) is invoked once with
\* index -1; the flags, the registry handle and both threads stay as they were:
\* the instance stays joined and its loops go on.
C17_Ejection ==
    [][\A h \in Handles :
          (/\ Did(h, {"balance"})
           /\ Joined(h)
           /\ CF_PASSIVE \notin cl[h].flags
           /\ cl[h].inst_index >= 0
           /\ ~Present(cl[h], reg[NsOf(cl[h])]))
          => /\ cl'[h].inst_index = -1
             /\ Len(lastOp'.cbs) = (IF cl[h].balancer THEN 1 ELSE 0)
             /\ \A i \in 1..Len(lastOp'.cbs) : lastOp'.cbs[i].index = -1
             /\ cl'[h].flags = cl[h].flags
             /\ cl'[h].conn = cl[h].conn
             /\ cl'[h].ping_thread = cl[h].ping_thread
             /\ cl'[h].balancer_thread = cl[h].balancer_thread
             /\ bal_pc'[h] = "check"
             /\ ping_pc'[h] = ping_pc[h]
             /\ app'[h] = app[h]]_vars

\* an instance that is joined and not leaving has just been told of its ejection
C17_Witness ==
    /\ lastOp.op = "balance"
    /\ Len(lastOp.cbs) = 1
    /\ lastOp.cbs[1].index = -1
    /\ cl[lastOp.h].flags = {CF_JOINED}
    /\ ~Present(cl[lastOp.h], reg[NsOf(cl[lastOp.h])])
    /\ ping_pc[lastOp.h] = "loop"

LeaveCalls == {"leave", "destroy"}

\* C19: when the leave (or destroy) of a joined, non-passive dynamic instance
\* returns, no record under the instance's identifier is left in its namespace;
\* and once the ping thread has removed the record and ended, no step of the
\* instance writes the registry again.
C19_LeaveRemovesRecord ==
    [][\A h \in Handles :
          /\ (/\ Did(h, LeaveCalls)
               /\ app[h] \in LeaveCalls
               /\ CF_PASSIVE \notin cl[h].flags)
              => ~Present(cl[h], reg'[NsOf(cl[h])])
          /\ (lastOp'.h = h /\ ping_pc[h] = "done") => reg' = reg]_vars

\* the leave of an active dynamic instance has returned, its threads joined
C19_Witness ==
    /\ lastOp.op = "leave"
    /\ lastOp.joined0
    /\ cl[lastOp.h].type \in Dynamic
    /\ CF_PASSIVE \notin cl[lastOp.h].flags
    /\ ~Joined(lastOp.h)
    /\ ping_pc[lastOp.h] = "none"

\* C20: once CF_LEAVING is set on a joined dynamic instance, both threads end
\* and the leave (or destroy) returns with the handle in state new, under fair
\* scheduling and a registry that answers, also for the only member of a
\* namespace and wherever the flag is set between a thread's check of it and
\* the thread's next blocking call.
C20_LeaveTerminates ==
    \A h \in Handles :
       (CF_LEAVING \in cl[h].flags)
       ~> (/\ app[h] = "idle"
           /\ cl[h].flags \cap {CF_JOINED, CF_LEAVING} = {}
           /\ ping_pc[h] = "none"
           /\ bal_pc[h] = "none")

C16_NoOverlap ==
    [][\A h \in Handles :
          (lastOp'.h = h /\ lastOp'.cbs # <<>>)
          => \A t \in Threads : app[h][t] # "callback"]_vars

\* the total that h1 stores counts the workers of h2
CountsOther == cl["h1"].total_threads = cl["h1"].inst_threads + cl["h2"].inst_threads

\* a pass of h1's balancer thread calls back only when the presence of h2's
\* record in the snapshot differs from what h1 had stored, and then it does
OnlyOnChangeOfOther ==
    [][Did("h1", {"balance"})
       => ((lastOp'.cbs # <<>>)
           <=> (CountsOther # Present(cl["h2"], reg[NsOf(cl["h1"])])))]_vars

AfterFork(h) == lastOp'.h = h /\ lastOp'.op \in {"parent", "child", "rejoin"}

\* the fork mode "both": the name of the header, or the two bits the hooks test
BothMode(m) == m = {CLUSTER_FORK_BOTH} \/ m = {CLUSTER_FORK_CHILD, CLUSTER_FORK_PARENT}

\* C21: with the fork mode "both", the hook each side runs after the fork of a
\* joined handle leaves that side with a ping thread and a balancer thread
\* running, and the child with an instance identifier that is not the parent's.
C21_ForkBoth ==
    [][\A h \in Handles :
          (AfterFork(h) /\ BothMode(cl[h].forkmode) /\ CF_JOINED \in cl[h].flags)
          => /\ ping_pc'[h] = "loop"
             /\ bal_pc'[h] = "check"
             /\ h = "h2" => cl'["h2"].instid # cl'["h1"].instid]_vars

\* C22: with the fork mode "child-only", the parent hook of a joined handle
\* leaves the parent not joined, with no thread and with its registry handles
\* closed.
C22_ChildOnly ==
    [][(AfterFork("h1") /\ cl["h1"].forkmode = {CLUSTER_FORK_CHILD}
           /\ CF_JOINED \in cl["h1"].flags)
       => /\ CF_JOINED \notin cl'["h1"].flags
          /\ ~cl'["h1"].conn
          /\ ping_pc'["h1"] = "none"
          /\ bal_pc'["h1"] = "none"]_vars

\* C23: with the fork mode "parent-only", no step on the child's handle (the
\* child hook, leave, destroy) makes a registry request or leaves a thread
\* running on it, and the parent hook of a joined handle leaves the parent with
\* a ping thread and a balancer thread running.
C23_ParentOnly ==
    [][cl["h1"].forkmode = {CLUSTER_FORK_PARENT}
       => /\ lastOp'.h = "h2"
             => /\ lastOp'.io = <<>>
                /\ ping_pc'["h2"] = "none"
                /\ bal_pc'["h2"] = "none"
          /\ (AfterFork("h1") /\ CF_JOINED \in cl["h1"].flags)
             => /\ ping_pc'["h1"] = "loop"
                /\ bal_pc'["h1"] = "check"]_vars

\* C24: the prepare hook of a joined dynamic handle, once both threads have
\* ended, completes: fork() goes ahead, with no thread left, inst_index = -1,
\* total_threads = 0 and the flags as they were before the hook (CF_JOINED
\* set, CF_LEAVING clear).
C24_PrepareCompletes ==
    [][\A h \in Handles :
          (lastOp'.op = "prepare" /\ lastOp'.h = h /\ CF_JOINED \in cl[h].flags)
          => /\ app'[h] = "forking"
             /\ ping_pc'[h] = "none"
             /\ bal_pc'[h] = "none"
             /\ cl'[h].inst_index = -1
             /\ cl'[h].total_threads = 0
             /\ cl'[h].flags = cl[h].flags \ {CF_LEAVING}]_vars

\* ------------------------------------------------------- back-end selection
\* C25: cluster_set_registry on a handle that is not joined selects the static
\* back-end for no URI, the etcd back-end for a URI of scheme http or https,
\* the SQL back-end for a scheme libsql handles, and refuses any other scheme
\* with EINVAL, leaving the handle as it was.
C25_BackendSelection ==
    [][\A h \in Handles :
          (lastOp'.op = "set_registry" /\ lastOp'.h = h /\ CF_JOINED \notin cl[h].flags)
          => LET uri == lastOp'.arg
             IN  CASE uri = "NULL" ->
                        lastOp'.ret = 0 /\ cl'[h].type = CT_STATIC
                   [] uri \in {"http:", "https:"} ->
                        lastOp'.ret = 0 /\ cl'[h].type = CT_ETCD
                   [] uri \notin {"NULL", "http:", "https:"} /\ sql_scheme_exists(uri) ->
                        lastOp'.ret = 0 /\ cl'[h].type = CT_SQL
                   [] OTHER ->
                        lastOp'.ret = -1 /\ lastOp'.errno = EINVAL /\ cl'[h] = cl[h]]_vars

\* ------------------------------------------ threads of a handle (SpecThreads)
\* C26: a handle has no thread beside the pair it knows, whatever the
\* application's threads do; a joined dynamic handle that is not passive and
\* not leaving has a ping thread and a balancer thread running, and a static
\* handle has neither.
C26_WorkerCount ==
    \A h \in Handles :
        alive[h]
        => /\ cl[h].orphans = 0
           /\ (Joined(h) /\ cl[h].type \in Dynamic
                  /\ cl[h].flags \cap {CF_PASSIVE, CF_LEAVING} = {})
              => ping_pc[h] = "loop" /\ bal_pc[h] \notin {"none", "done"}
           /\ cl[h].type = CT_STATIC => ping_pc[h] = "none" /\ bal_pc[h] = "none"

\* C27: while a ping thread or a balancer thread of a handle is running, the
\* registry handles (or database connections) of the handle are open: leave
\* closes them only when the threads have ended.
C27_LeaveOrdering ==
    \A h \in Handles :
        (alive[h] /\ (Running(h) \/ cl[h].orphans > 0)) => cl[h].conn

\* --------------------------------------------------- the registry requests
\* C28: no registry request (put, delete, list, wait) is made by a thread that
\* holds the handle's lock, for reading or for writing.
C28_LockDiscipline ==
    [][\A i \in 1..Len(lastOp'.io) : lastOp'.io[i].held = "none"]_vars

\* C29: the ping of a join asks for no existing record, every refresh of the
\* ping thread asks for one, and no step of the ping thread puts back a record
\* that is not in the registry.
C29_PingProtocol ==
    [][\A h \in Handles :
          /\ Did(h, {"join", "join_passive"})
             => \A i \in 1..Len(lastOp'.io) :
                   lastOp'.io[i].call = "put" => ~lastOp'.io[i].mustexist
          /\ Did(h, {"thread"})
             => /\ \A i \in 1..Len(lastOp'.io) :
                      lastOp'.io[i].call = "put" => lastOp'.io[i].mustexist
                /\ cl[h].instid \notin DOMAIN reg[NsOf(cl[h])]
                   => cl[h].instid \notin DOMAIN reg'[NsOf(cl[h])]]_vars

\* --------------------------------------------------- the cadence (SpecPing)
\* C30: a refresh of the ping thread that succeeds comes no sooner than
\* refresh seconds after the one before, or after the thread began; a refresh
\* that fails leaves the thread's count as it was and is followed by a sleep of
\* 5 seconds.
C30_PingCadence ==
    [][\A h \in Handles :
          /\ Did(h, {"refresh"}) => ping_pc[h].slept >= CLUSTER_DEFAULT_REFRESH
          /\ Did(h, {"retry"})
             => /\ ping_pc'[h].count = ping_pc[h].count
                /\ ping_pc'[h].slept = UpTo(ping_pc[h].slept + 5, MaxElapsed)]_vars

\* C31: while the instance is joined and not leaving and no refresh has
\* failed, fewer than ttl seconds have passed since its record was last
\* written, and the record is in the registry.
C31_LeaseKept ==
    \A h \in Handles :
        (alive[h] /\ ping_pc[h].pc = "loop" /\ ~ping_pc[h].failed
            /\ CF_LEAVING \notin cl[h].flags)
        => /\ ping_pc[h].slept < CLUSTER_DEFAULT_TTL
           /\ cl[h].instid \in DOMAIN reg[NsOf(cl[h])]

\* the thread has refreshed before and is about to refresh again, refresh + 1
\* seconds later, no refresh having failed
C31_Witness ==
    /\ ping_pc["h1"].pc = "loop"
    /\ ping_pc["h1"].refreshed
    /\ ~ping_pc["h1"].failed
    /\ ping_pc["h1"].count > CLUSTER_DEFAULT_REFRESH
    /\ ping_pc["h1"].slept = CLUSTER_DEFAULT_REFRESH + 1
    /\ lastOp.op = "sleep"

\* C32: a refresh that fails leaves CF_JOINED and CF_LEAVING as they were and
\* the ping thread in its loop; and when the registry answers again, a record
\* that is gone from the registry comes to be there again, unless the instance
\* leaves.
C32_Recovery ==
    /\ [][\A h \in Handles :
             Did(h, {"retry"})
             => cl'[h].flags = cl[h].flags /\ ping_pc'[h].pc = "loop"]_vars
    /\ \A h \in {"h1"} :
          (ping_pc[h].pc = "loop" /\ cl[h].instid \notin DOMAIN reg[NsOf(cl[h])])
          ~> (cl[h].instid \in DOMAIN reg[NsOf(cl[h])] \/ CF_LEAVING \in cl[h].flags)

\* ------------------------------------------------ the SQL poll (SpecPoll)
\* C33: a poll of the SQL balancer thread is followed by a balance pass when
\* it finds a live row updated since the poll before, and when
\* MAX_BALANCEWAIT seconds or more have passed since the last pass; and while
\* the thread runs and the instance is not leaving, what the instance has
\* stored is never out of date for more than MAX_BALANCEWAIT + BALANCE_SLEEP
\* seconds.
C33_ForcedBalance ==
    /\ [][\A h \in Handles :
             (Did(h, {"poll", "balance"}) /\ lastOp'.io # <<>>
                 /\ lastOp'.io[1].call = "poll")
             => LET rows == bal_pc[h].touched \cap DOMAIN reg[NsOf(cl[h])]
                    due == bal_pc[h].since >= CLUSTER_SQL_MAX_BALANCEWAIT
                IN  (rows # {} \/ due) => (lastOp'.op = "balance" /\ fresh'[h])]_vars
    /\ [](\A h \in {"h1"} :
             (bal_pc[h].pc # "done" /\ CF_LEAVING \notin cl[h].flags)
             => bal_pc[h].stale <= CLUSTER_SQL_MAX_BALANCEWAIT + CLUSTER_SQL_BALANCE_SLEEP)

\* a row went without a row being updated, the stored total was out of date
\* for a whole MAX_BALANCEWAIT, and the pass forced then has just stored a
\* total without the row
C33_Witness ==
    /\ lastOp.op = "balance"
    /\ lastOp.h = "h1"
    /\ Len(lastOp.cbs) = 1
    /\ lastOp.cbs[1].total = cl["h1"].inst_threads
    /\ Foreign \notin DOMAIN reg[NsOf(cl["h1"])]
    /\ fresh["h1"]
    /\ lastOp.arg >= CLUSTER_SQL_MAX_BALANCEWAIT
    /\ bal_pc["h1"].stale = 0

\* ------------------------------------------- worker counts (SpecCounts)
\* what a record adds to the running total, were a non-positive count to add
\* nothing
Counted(val) == IF val > 0 THEN val ELSE 0

RECURSIVE CountedSum(_, _)
CountedSum(dir, keyset) ==
    IF keyset = {} THEN 0
    ELSE LET k == CHOOSE j \in keyset : TRUE
         IN  Counted(dir[k]) + CountedSum(dir, keyset \ {k})

\* C34: in a balance pass a record whose worker count is zero or negative adds
\* nothing to the running total: the total stored is the sum of the positive
\* counts, the index of a present instance with a positive count is the sum
\* of the positive counts sorted before it, and an instance whose own count
\* is not positive is given no index.
C34_NonPositiveCounts ==
    [][\A h \in Handles :
          Balanced(h)
          => LET dir == reg'[NsOf(cl'[h])]
                 c == cl'[h]
             IN  /\ c.total_threads = CountedSum(dir, DOMAIN dir)
                 /\ (Present(c, dir) /\ dir[c.instid] > 0)
                    => c.inst_index = CountedSum(dir, Before(dir, c.instid))
                 /\ (Present(c, dir) /\ dir[c.instid] <= 0)
                    => c.inst_index = -1]_vars

\* the same with no record of a negative count in the directory read, and
\* said of the total and of the index of an instance with a positive count
C34_ZeroCounts ==
    [][\A h \in Handles :
          (Balanced(h) /\ \A k \in DOMAIN reg'[NsOf(cl'[h])] : reg'[NsOf(cl'[h])][k] >= 0)
          => LET dir == reg'[NsOf(cl'[h])]
                 c == cl'[h]
             IN  /\ c.total_threads = CountedSum(dir, DOMAIN dir)
                 /\ (Present(c, dir) /\ dir[c.instid] > 0)
                    => c.inst_index = CountedSum(dir, Before(dir, c.instid))]_vars

\* ---------------------------------------- the callback's state (SpecPass)
\* C35: the index and the total handed to the balancer callback are the base
\* and the total that the balance pass making the call computed from the
\* directory it read, whatever other threads did between the pass releasing
\* the write lock and cluster_rebalanced_ reading the struct.
C35_CallbackSnapshot ==
    [][\A h \in Handles :
          Did(h, {"callback"})
          => \A i \in 1..Len(lastOp'.cbs) :
                /\ lastOp'.cbs[i].index = bal_pc[h].base
                /\ lastOp'.cbs[i].total = bal_pc[h].total]_vars

\* the same of the passes of the balancer thread alone, made while joined
C35_BalancerSnapshot ==
    [][\A h \in Handles :
          (Did(h, {"callback"}) /\ ~bal_pc[h].joining)
          => \A i \in 1..Len(lastOp'.cbs) :
                /\ lastOp'.cbs[i].index = bal_pc[h].base
                /\ lastOp'.cbs[i].total = bal_pc[h].total]_vars

\* ------------------------------------------------- the index of a worker
\* C36: on a joined handle cluster_index of a worker ordinal w of the
\* instance, 0 <= w < inst_threads, returns -1 for no assignment or an index
\* of the instance's own range, inst_index <= r < inst_index + inst_threads;
\* while inst_index is -1 it returns no index of zero or above.
C36_OwnRangeOnly ==
    [][\A h \in Handles :
          (Did(h, {"index"}) /\ Joined(h)
              /\ lastOp'.arg >= 0 /\ lastOp'.arg < cl[h].inst_threads)
          => /\ \/ lastOp'.ret = -1
                \/ /\ cl[h].inst_index >= 0
                   /\ lastOp'.ret >= cl[h].inst_index
                   /\ lastOp'.ret < cl[h].inst_index + cl[h].inst_threads
             /\ cl[h].inst_index = -1 => lastOp'.ret < 0]_vars

\* the same of a handle that holds an assignment
C36_AssignedOwnRange ==
    [][\A h \in Handles :
          (Did(h, {"index"}) /\ Joined(h) /\ cl[h].inst_index >= 0
              /\ lastOp'.arg >= 0 /\ lastOp'.arg < cl[h].inst_threads)
          => /\ lastOp'.ret >= cl[h].inst_index
             /\ lastOp'.ret < cl[h].inst_index + cl[h].inst_threads]_vars

\* ------------------------------------------- the handle during a callback
\* a step of h that invokes the balancer callback: a join or a balance pass
Invokes(h) ==
    /\ Did(h, {"join_body", "balance"})
    /\ lastOp'.cbs # <<>>

\* what cluster_index(0), cluster_total and cluster_workers give the callback
\* that calls them: they succeed and return the values of the callback's state
AccessorsAgree(c, state) ==
    /\ CF_JOINED \in c.flags
    /\ c.inst_index = state.index
    /\ c.total_threads = state.total
    /\ c.inst_threads = state.workers

\* C37: when the balancer callback is invoked by a join or by a balance pass
\* the handle is joined and its index, total and worker count are those of
\* the callback's state, and the handle is joined for as long as the callback
\* of a join runs, be the join static or dynamic.
C37_JoinedInCallback ==
    /\ [][\A h \in Handles :
             Invokes(h)
             => \A i \in 1..Len(lastOp'.cbs) : AccessorsAgree(cl'[h], lastOp'.cbs[i])]_vars
    /\ [](\A h \in Handles, t \in Threads : app[h][t] = "callback" => Joined(h))

\* at the moment of the call, the same of the static join and of the passes
\* of the balancer thread (a cluster_leave by another thread may end the
\* static membership while the callback runs)
C37_StaticInCallback ==
    [][\A h \in Handles :
          (Invokes(h) /\ (cl[h].type = CT_STATIC \/ lastOp'.op = "balance"))
          => \A i \in 1..Len(lastOp'.cbs) : AccessorsAgree(cl'[h], lastOp'.cbs[i])]_vars

\* --------------------------------------------------- the leaving instance
\* a step of h that is a balance pass or that invokes the balancer callback
PassOrCallback(h) ==
    /\ lastOp'.h = h
    /\ lastOp'.op = "balance" \/ lastOp'.cbs # <<>>

\* C38: from the moment cluster_leave sets CF_LEAVING until the next join
\* the instance makes no balance pass and its balancer callback is not
\* invoked: none while CF_LEAVING is set, the removal of its own record by
\* its ping thread included, and none after the leave while it is not joined.
C38_NoCallbackOnLeave ==
    [][\A h \in Handles :
          (CF_LEAVING \in cl[h].flags \/ (~Joined(h) /\ lastOp'.op \notin JoinCalls))
          => ~PassOrCallback(h)]_vars

\* the same from the return of cluster_leave on
C38_NoCallbackAfterLeave ==
    [][\A h \in Handles :
          (CF_LEAVING \notin cl[h].flags /\ ~Joined(h) /\ lastOp'.op \notin JoinCalls)
          => ~PassOrCallback(h)]_vars

\* ------------------------------------------------- the join that failed
\* C39: when a dynamic join returns -1 after its initial ping wrote the
\* instance's record (the initial balance failed), no record under the
\* instance's identifier is left in its namespace.
C39_NoPhantomRecord ==
    [][\A h \in Handles :
          (/\ Did(h, JoinCalls)
           /\ ~Joined(h)
           /\ cl[h].type \in Dynamic
           /\ lastOp'.ret = -1
           /\ \E i \in 1..Len(lastOp'.io) : lastOp'.io[i].call = "put")
          => ~Present(cl'[h], reg'[NsOf(cl'[h])])]_vars

\* a join that failed before its initial ping adds no record
C39_NoRecordBeforePing ==
    [][\A h \in Handles :
          (/\ Did(h, JoinCalls)
           /\ ~Joined(h)
           /\ cl[h].type \in Dynamic
           /\ lastOp'.ret = -1
           /\ lastOp'.io = <<>>)
          => reg' = reg]_vars

\* ------------------------------------------- the registry string (SpecHeap)
\* C40: over the calls of cluster_set_registry, with a URI or with NULL, on
\* a handle that is not joined, and the cluster_destroy that follows, no
\* string is freed twice, the handle's registry pointer never points to a
\* freed string, every string has been freed once when the handle is
\* destroyed, and after cluster_set_registry(NULL) the pointer is NULL.
C40_RegistryOwnership ==
    /\ [](\A h \in Handles :
             /\ \A b \in 1..Len(cl[h].heap) : cl[h].heap[b] <= 1
             /\ (alive[h] /\ cl[h].registry # 0) => cl[h].heap[cl[h].registry] = 0
             /\ ~alive[h] => \A b \in 1..Len(cl[h].heap) : cl[h].heap[b] = 1)
    /\ [][\A h \in Handles :
             (Did(h, {"set_registry"}) /\ lastOp'.arg = "NULL" /\ lastOp'.ret = 0)
             => cl'[h].registry = 0]_vars

\* a cluster_set_registry with a URI that succeeds leaves the pointer at a
\* new string, not freed, and has called free on the one it replaces
C40_ReplaceFrees ==
    [][\A h \in Handles :
          (Did(h, {"set_registry"}) /\ lastOp'.arg # "NULL" /\ lastOp'.ret = 0)
          => /\ cl'[h].registry = Len(cl[h].heap) + 1
             /\ cl'[h].heap[cl'[h].registry] = 0
             /\ cl[h].registry # 0 => cl'[h].heap[cl[h].registry] >= 1]_vars
====
